---- MODULE Spec2Model ----
(***************************************************************************)
(* A model of the connection and supervision layer of euphoxide:           *)
(*   - the Client supervisor task (euphoxide-client/src/single.rs),        *)
(*   - the MultiClient aggregator (euphoxide-client/src/multi.rs),         *)
(*   - the ClientConn driver loop with its reply correlation               *)
(*     (src/client/conn.rs, src/replies.rs),                               *)
(*   - the ping bookkeeping of Conn (src/conn.rs),                         *)
(*   - the roster of a joined connection (src/client/state.rs).            *)
(* Each part has its own specification over the shared variable list; the  *)
(* variables of the other parts stay parked at their initial values.       *)
(***************************************************************************)
EXTENDS Naturals, Integers, Sequences, FiniteSets, TLC

(***************************************************************************)
(* Bounds of the model.                                                    *)
(***************************************************************************)
\* connect attempts explored in one run of a supervisor
MaxAttempts == 3
\* packets received by one supervisor over all its connections
MaxPackets == 1
\* the configured join_attempts
JoinAttempts == 1
\* Client handle clones held by users
MaxHandles == 2

\* children one MultiClient spawns
MaxClients == 2
\* connect attempts of one child of a MultiClient
MaxChildRounds == 1

\* packets a child receives on one connection
MaxChildPackets == 1
\* MultiClientConfig::event_channel_bufsize as configured
EventChannelBufsize == 1
\* capacity of the event sink the user hands to MultiClient::new
OutBufsize == 1

\* commands submitted through the handles of one connection
MaxCmds == 2

\* calls of ClientConn::send made by the owner of one connection
MaxDirectSends == 1

\* ClientConnConfig::channel_bufsize as configured
ConnChannelBufsize == 2

\* sessions in the listing of one who-reply
MaxWhoListing == 2

\* commands added to one Commands dispatcher
MaxCommands == 3

\* characters of the text handed to a text function
MaxText == 6

\* pieces a text handed to parse_quoted_args is written with
MaxPieces == 4

\* ping-events a connection answers
MaxPingEvents == 1

\* sessions a snapshot-event lists
MaxSnapshotListing == 2

\* Connecting events of one Instance
MaxConnectings == 2

\* packets an Instance receives on one connection
MaxInstancePackets == 1

\* requests waiting in the request channel of an Instance
MaxRequests == 1

\* Bot: the capacity of the event channel, the tasks spawned under one
\* instance id, the events one instance task sends before its Stopped event
BotEventBufsize == 2
MaxSpawns == 1
MaxBotEvents == 1

\* ServerConfig::default().cmd_channel_bufsize
CmdChannelBufsize == 1
\* MultiClientConfig::default().cmd_channel_bufsize
MultiCmdChannelBufsize == 1

\* the ping ticks of one connection
MaxTicks == 3
\* the commands sent through one connection besides its pings
MaxConnCmds == 1

VARIABLES
    \* ---- ClientTask (single.rs) ----
    pc,             \* position of ClientTask::run
    config,         \* ClientConfig: password, username, force_username, join_attempts
    attempts,       \* ClientTask::attempts
    never_joined,   \* ClientTask::never_joined
    events,         \* every ClientEvent handed to event_tx, in order
    cmd_queue,      \* content of the Client command channel
    cmd_senders,    \* live Client handles (senders of the command channel)
    conn_packets,   \* packets received so far
    conn_sent,      \* commands the supervisor sent while handling the last packet
    pending_err,    \* the connect error held while sleeping
    last_result,    \* what the last run_once returned (none while one runs)
    getconn,        \* one caller of Client::handle(): idle, sending (its send holds
                    \* a slot of the channel), queued, some, none
    getconn_phase,  \* whether a connection was open when that caller called
                    \* handle(): none (not called), connected, not_connected
    stop_sending,   \* a call of Client::stop() holds a slot of the channel
    history,        \* TRUE: events holds every event and the run is bounded by
                    \* MaxAttempts and MaxPackets; FALSE: events holds the last
                    \* emission only and the run is unbounded
    conn_state,     \* ClientConn::state of the current connection
    event_state,    \* the state snapshot carried by the events of the last
                    \* emission (Connected, Packet, Joined)
    joined_events,  \* Joined events emitted on the current connection (2: two
                    \* or more)

    \* ---- MultiClientTask (multi.rs) and its children ----
    next_id,        \* MultiClientTask::next_id
    clients,        \* MultiClientTask::clients: child id -> the room of its config
    agg_pc,         \* position of MultiClientTask::run: select, forward
    agg_held,       \* the event on_event is handing to out_tx
    event_q,        \* the event channel shared by the children
    out_q,          \* the user's event sink
    multi_cmd_q,    \* the MultiClient command channel
    caller_pc,      \* each calling task: idle or waiting for its reply
    added,          \* the clients add_client returned: child id -> room asked for
    listed,         \* the ids in the last answer of get_clients
    child_pc,       \* position of each child's ClientTask::run
    child_rounds,   \* connect attempts of each child
    child_packets,  \* packets each child received on its current connection
    emitted,        \* per child: the events it sent, in order
    delivered,      \* per child: the events handed to the user sink, in order

    \* ---- ClientConn (client/conn.rs), Replies (replies.rs), the futures ----
    cc_alive,       \* the ClientConn exists (it was not dropped)
    cc_last_id,     \* ClientConn::last_id
    cc_pending,     \* Replies::pending: correlation id -> the waiter its Sender serves
    cc_rx,          \* the ConnCommand channel: the queued SendCmd and GetState
    cc_wire,        \* the correlation ids written to the WebSocket, in order
    w_state,        \* each call of ClientConnHandle::send and its future: idle,
                    \* sending (tx.send holds a slot of the channel), queued,
                    \* awaiting, resolved, dropped
    w_id,           \* the correlation id allocated for each waiter's command (0: none)
    w_slot,         \* each waiter's oneshot: open, closed (sender dropped), send_err
                    \* (the send failed) or packet (with the packet sent through it)
    w_result,       \* what each future resolved to
    cc_submitted,   \* the waiters whose command entered the channel, in the order
                    \* of their calls of ClientConnHandle::send
    cc_recv,        \* the owner's call of ClientConn::recv: idle (no call), select
                    \* (waiting in select!), on_cmd (on_cmd awaits send)
    cc_cmd,         \* the waiter whose SendCmd on_cmd is sending (0: none)
    cc_ws,          \* the connection below: open, closing, closed
    cc_direct,      \* calls of ClientConn::send made by the owner
    s_call,         \* the call of ClientConnHandle::state: none, sending (tx.send
                    \* holds a slot of the channel), queued, or its result
                    \* (State, ConnectionClosed)

    \* ---- Conn (conn.rs): its pings ----
    ws_open,                    \* recv has not returned an error yet
    last_id,                    \* Conn::last_id
    ticks,                      \* the ping ticks so far: the clock the payloads are made of
    last_ws_ping_payload,       \* Conn::last_ws_ping_payload (None: no ping sent)
    last_ws_ping_replied_to,    \* Conn::last_ws_ping_replied_to
    last_euph_ping_payload,     \* Conn::last_euph_ping_payload (None: no ping sent)
    last_euph_ping_replied_to,  \* Conn::last_euph_ping_replied_to
    recv_result,                \* what the last call of Conn::recv returned
    ws_pongs,                   \* the pong payloads received since the last pings were sent
    euph_ping_replies,          \* the ping-reply times received since the last pings were sent
    sent_rpl,       \* the replies handed to send_rpl, in order

    \* ---- Joined (client/state.rs): the room state of a joined connection ----
    listing,        \* Joined::listing: the session infos of the map, each under
                    \* the key session_id
    session,        \* Joined::session: the client's own session view
    joined_alive,   \* the task that applies the packets has not panicked
    parted,          \* the session ids a PartEvent named, with no later join, send,
    last_who,       \* the listing of the who-reply, if the last packet applied was one
                    \* nick or who-reply packet naming them

    \* ---- Commands (euphoxide-bot/src/command.rs): the dispatcher ----
    commands,       \* Commands::commands: the commands, each named by the number of
                    \* the add call that inserted it
    d_pc,           \* building, idle, executing (inside handle_message), returned
    d_event,        \* the event handed to handle_event
    d_index,        \* the position of the loop of handle_message
    d_executed,     \* the commands executed for this event with what each returned
    d_result,        \* what handle_event returned: Yes, No, Err (none before)

    \* ---- the pure functions of the command layer (command/bang.rs,
    \* command/clap.rs, nick.rs) ----
    call,           \* the arguments of the call under study
    result,          \* what the call returned (done: it has returned)

    \* ---- Joining (client/state.rs): the state of a connection that has not
    \* joined the room yet ----
    joining,         \* the events kept so far: hello, snapshot, bounce

    \* ---- Instance (bot/instance.rs): the callback-based supervisor ----
    inst_pc,        \* where the task of Instance::run is suspended
    inst_events,    \* the events handed to on_event, in order
    inst_requests,  \* request_rx: the requests sent and not yet received
    inst_dropped,   \* every clone of the Instance has been dropped
    inst_packets,    \* packets received on the current connection

    \* ---- Bot: the instance table, the event channel and a call of recv ----
    bot_pc,            \* "idle" | "check" | "wait": where Bot::recv stands
    bot_instances,     \* the keys of Bot::instances
    bot_q,             \* the events in the event channel
    bot_result,        \* what the last call of recv returned: << >> is None
    bot_timed_out,     \* the running call of recv saw its timeout elapse
    binst_state,       \* per instance id: "unborn" | "running" | "returning" |
                       \* "stopped" (cmd_rx dropped) | "done" (event_tx dropped)
    binst_spawns,      \* per instance id: the tasks spawned under it so far
    binst_sent,         \* per instance id: the events its running task has sent

    \* ---- MultiClient: the handles of the aggregator ----
    multi_handles      \* the number of MultiClient values (clones of cmd_tx)

clientVars == << pc, config, attempts, never_joined, events, cmd_queue,
                 cmd_senders, conn_packets, conn_sent, pending_err,
                 last_result, getconn, getconn_phase, stop_sending, history,
                 conn_state, event_state, joined_events >>

multiVars == << next_id, clients, agg_pc, agg_held, event_q, out_q, multi_cmd_q,
                caller_pc, added, listed, child_pc, child_rounds, child_packets,
                emitted, delivered >>

connVars == << cc_alive, cc_last_id, cc_pending, cc_rx, cc_wire, w_state, w_id,
               w_slot, w_result, cc_submitted, cc_recv, cc_cmd, cc_ws, cc_direct, s_call >>

pingVars == << ws_open, last_id, ticks, last_ws_ping_payload,
              last_ws_ping_replied_to, last_euph_ping_payload,
              last_euph_ping_replied_to, recv_result, ws_pongs, euph_ping_replies,
              sent_rpl >>

joinedVars == << listing, session, joined_alive, parted, last_who >>

cmdsVars == << commands, d_pc, d_event, d_index, d_executed, d_result >>

callVars == << call, result >>

joiningVars == << joining >>

instVars == << inst_pc, inst_events, inst_requests, inst_dropped, inst_packets >>

botVars == << bot_pc, bot_instances, bot_q, bot_result, bot_timed_out, binst_state, binst_spawns, binst_sent >>

handleVars == << multi_handles >>

vars == << clientVars, multiVars, connVars, pingVars, joinedVars, cmdsVars, callVars, joiningVars, instVars, botVars, handleVars >>

\* what the actions of one part leave alone
notClient == << multiVars, connVars, pingVars, joinedVars, cmdsVars, callVars, joiningVars, instVars, botVars, handleVars >>
notMulti == << clientVars, connVars, pingVars, joinedVars, cmdsVars, callVars, joiningVars, instVars, botVars, handleVars >>
notConn == << clientVars, multiVars, pingVars, joinedVars, cmdsVars, callVars, joiningVars, instVars, botVars, handleVars >>
notPing == << clientVars, multiVars, connVars, joinedVars, cmdsVars, callVars, joiningVars, instVars, botVars, handleVars >>
notJoined == << clientVars, multiVars, connVars, pingVars, cmdsVars, callVars, joiningVars, instVars, botVars, handleVars >>
notCmds == << clientVars, multiVars, connVars, pingVars, joinedVars, callVars, joiningVars, instVars, botVars, handleVars >>
notCall == << clientVars, multiVars, connVars, pingVars, joinedVars, cmdsVars, joiningVars, instVars, botVars, handleVars >>
notJoining == << clientVars, multiVars, connVars, pingVars, joinedVars, cmdsVars, callVars, instVars, botVars, handleVars >>
notInst == << clientVars, multiVars, connVars, pingVars, joinedVars, cmdsVars, callVars, joiningVars, botVars, handleVars >>
notBot == << clientVars, multiVars, connVars, pingVars, joinedVars, cmdsVars, callVars, joiningVars, instVars, handleVars >>
notHandle == << clientVars, multiVars, connVars, pingVars, joinedVars, cmdsVars, callVars, joiningVars, instVars, botVars >>

(***************************************************************************)
(* ClientTask: errors and their classification.                            *)
(***************************************************************************)
\* euphoxide::Error values a connect attempt can fail with
ConnectErrors == { "Http404", "ConnectionTimeout", "Transport" }

\* euphoxide::Error values ClientConn::recv can return
RecvErrors == { "PingTimeout", "ConnectionClosed", "ReceivedUnexpectedPacket" }

\* IsFatal with a plausible slip: the two authentication errors are not listed
IsFatal_AuthRetries(err) ==
    err \in { "Stopped", "NoReferences", "OutOfJoinAttempts", "Http404" }

\* IsFatal with a plausible slip: every error of the connection is fatal
IsFatal_AllFatal(err) == TRUE

\* Error::is_fatal
IsFatal(err) ==
    err \in { "Stopped", "NoReferences", "AuthRequired", "InvalidPassword",
              "OutOfJoinAttempts", "Http404" }

\* the packets the supervisor distinguishes; "error_reply" has content Err(msg)
PacketKinds == { "hello", "snapshot_nonick", "snapshot_nick", "bounce_passcode",
                 "bounce_other", "auth_ok", "auth_fail", "send_event",
                 "error_reply" }

\* ParsedPacket::into_data: the payload, or Euph(msg) for an error packet
IntoData(kind) == IF kind = "error_reply" THEN "Euph" ELSE "ok"

\* the nick condition with a plausible slip: force_username is not looked at
SendsNick_IgnoresForce(kind) ==
    /\ kind = "snapshot_nonick"
    /\ config.username

\* does on_packet send a Nick command for this snapshot?
SendsNick(kind) ==
    /\ kind \in { "snapshot_nonick", "snapshot_nick" }
    /\ config.username
    /\ (kind = "snapshot_nonick" \/ config.force_username)

\* State::new: Joining with nothing received.  A state is its variant with
\* what the packets left in it: the hello, snapshot and bounce a Joining holds,
\* and whether the roster of a Joined lists the sender of a message.
StateNew ==
    [ variant |-> "Joining", hello |-> FALSE, snapshot |-> FALSE, bounce |-> FALSE,
      listed |-> FALSE ]

\* State::on_data: Joining::on_data followed by to_joined, or Joined::on_data
StateOnData(st, kind) ==
    IF st.variant = "Joining"
    THEN LET j == [ st EXCEPT
                      !.hello = st.hello \/ kind = "hello",
                      !.snapshot = st.snapshot
                                     \/ kind \in { "snapshot_nonick", "snapshot_nick" },
                      !.bounce = st.bounce
                                   \/ kind \in { "bounce_passcode", "bounce_other" } ]
         IN  IF j.hello /\ j.snapshot
             THEN [ variant |-> "Joined", hello |-> TRUE, snapshot |-> TRUE,
                    bounce |-> FALSE, listed |-> FALSE ]
             ELSE j
    ELSE IF kind = "send_event" THEN [ st EXCEPT !.listed = TRUE ] ELSE st

\* ClientConn::on_packet: the data of a packet is applied, an error is not
StateOnPacket(st, kind) ==
    IF IntoData(kind) = "ok" THEN StateOnData(st, kind) ELSE st

\* conn.state().clone() in the events with a plausible slip: the state from
\* before the packet
EventState_BeforePacket(before, after) == before

\* conn.state().clone() in the events of on_packet and on_joined: recv has
\* applied the packet before it returned
EventState(before, after) == after

\* ClientTask::on_packet from the Packet event it has sent to its next await or
\* its return: the error it returns ("ok" for none) and what it awaits next:
\* conn.send of Auth ("send_auth") or of Nick ("send_nick"), the Joined event of
\* on_joined ("on_joined"), or nothing more ("connected": it returns Ok)
OnPacket(kind) ==
    IF IntoData(kind) # "ok"
    THEN [ err |-> IntoData(kind), wait |-> "none" ]
    ELSE IF kind = "bounce_passcode"
    THEN IF config.password
         THEN [ err |-> "ok", wait |-> "send_auth" ]
         ELSE [ err |-> "AuthRequired", wait |-> "none" ]
    ELSE IF kind = "auth_fail"
    THEN [ err |-> "InvalidPassword", wait |-> "none" ]
    ELSE IF kind \in { "snapshot_nonick", "snapshot_nick" }
    THEN IF SendsNick(kind)
         THEN [ err |-> "ok", wait |-> "send_nick" ]
         ELSE [ err |-> "ok", wait |-> "on_joined" ]
    ELSE [ err |-> "ok", wait |-> "connected" ]

\* the positions of run_once in which the connection of the attempt exists
InConnection == { "connected", "send_auth", "send_nick", "on_joined" }

\* where ClientTask::run goes when run_once returned err ("ok" for Ok(()))
AfterRunOnce(err) == IF err # "ok" /\ IsFatal(err) THEN "stopping" ELSE "loop"

(***************************************************************************)
(* ClientTask: the state after Client::new.                                *)
(***************************************************************************)
Configs ==
    [ password : BOOLEAN, username : BOOLEAN, force_username : BOOLEAN,
      join_attempts : { JoinAttempts } ]

InitClient ==
    /\ pc = "start"
    /\ config \in Configs
    /\ attempts = 0
    /\ never_joined = FALSE
    /\ events = << >>
    /\ cmd_queue = << >>
    /\ cmd_senders = 1
    /\ conn_packets = 0
    /\ conn_sent = << >>
    /\ pending_err = "ok"
    /\ last_result = "none"
    /\ getconn = "idle"
    /\ getconn_phase = "none"
    /\ stop_sending = FALSE
    /\ history = TRUE
    /\ conn_state = StateNew
    /\ event_state = StateNew
    /\ joined_events = 0

\* the same state for runs of unbounded length
InitClientUnbounded ==
    /\ pc = "start"
    /\ config \in Configs
    /\ attempts = 0
    /\ never_joined = FALSE
    /\ events = << >>
    /\ cmd_queue = << >>
    /\ cmd_senders = 1
    /\ conn_packets = 0
    /\ conn_sent = << >>
    /\ pending_err = "ok"
    /\ last_result = "none"
    /\ getconn = "idle"
    /\ getconn_phase = "none"
    /\ stop_sending = FALSE
    /\ history = FALSE
    /\ conn_state = StateNew
    /\ event_state = StateNew
    /\ joined_events = 0

\* the supervisor's variables while another part is explored
ParkedClient ==
    /\ pc = "start"
    /\ config = [ password |-> FALSE, username |-> FALSE, force_username |-> FALSE,
                  join_attempts |-> JoinAttempts ]
    /\ attempts = 0
    /\ never_joined = FALSE
    /\ events = << >>
    /\ cmd_queue = << >>
    /\ cmd_senders = 1
    /\ conn_packets = 0
    /\ conn_sent = << >>
    /\ pending_err = "ok"
    /\ last_result = "none"
    /\ getconn = "idle"
    /\ getconn_phase = "none"
    /\ stop_sending = FALSE
    /\ history = TRUE
    /\ conn_state = StateNew
    /\ event_state = StateNew
    /\ joined_events = 0

\* event_tx.send of the events new, as the model records it
Emit(es, new) == IF history THEN es \o new ELSE new

\* a GetConn command dropped with the receiver makes handle() return None; a
\* send that only holds its slot so far is not reached by the drain
DropQueued(g) == IF g = "queued" THEN "none" ELSE g

\* the slots of the command channel held by sends that have not written their
\* command yet
CmdPermits(g, st) ==
    (IF g = "sending" THEN 1 ELSE 0) + (IF st THEN 1 ELSE 0)

(***************************************************************************)
(* ClientTask::run and run_once.                                           *)
(***************************************************************************)
\* run: the Started event, then the loop
Run_Started ==
    /\ pc = "start"
    /\ events' = Emit(events, << "Started" >>)
    /\ pc' = "loop"
    /\ UNCHANGED << config, attempts, never_joined, cmd_queue, cmd_senders,
                    conn_packets, conn_sent, pending_err, last_result, getconn,
                    getconn_phase, stop_sending, history, conn_state, event_state,
                    joined_events, notClient >>

\* run_once up to the connect call
RunOnce_Begin ==
    /\ pc = "loop"
    /\ history => attempts < MaxAttempts
    /\ attempts' = IF attempts < MaxAttempts THEN attempts + 1 ELSE attempts
    /\ IF never_joined /\ attempts' > config.join_attempts
       THEN /\ last_result' = "OutOfJoinAttempts"
            /\ pc' = AfterRunOnce("OutOfJoinAttempts")
            /\ events' = events
       ELSE /\ events' = Emit(events, << "Connecting" >>)
            /\ pc' = "connecting"
            /\ last_result' = "none"
    /\ UNCHANGED << config, never_joined, cmd_queue, cmd_senders,
                    conn_packets, conn_sent, pending_err, getconn,
                    getconn_phase, stop_sending, history, conn_state, event_state,
                    joined_events, notClient >>

\* connect succeeded: the Connected event, then the receive loop
Connect_Ok ==
    /\ pc = "connecting"
    /\ events' = Emit(events, << "Connected" >>)
    /\ conn_sent' = << >>
    /\ conn_state' = StateNew
    /\ event_state' = conn_state'
    /\ joined_events' = 0
    /\ pc' = "connected"
    /\ UNCHANGED << config, attempts, never_joined, cmd_queue, cmd_senders,
                    conn_packets, pending_err, last_result, getconn,
                    getconn_phase, stop_sending, history, notClient >>

\* the Err arm of connect() with a plausible slip: the error is returned
\* without the sleep
Connect_Err_NoSleep(err) ==
    /\ pc = "connecting"
    /\ last_result' = err
    /\ pc' = AfterRunOnce(err)
    /\ UNCHANGED << config, attempts, never_joined, events, cmd_queue,
                    cmd_senders, conn_packets, conn_sent, pending_err, getconn,
                    getconn_phase, stop_sending, history, conn_state, event_state,
                    joined_events, notClient >>

\* connect failed: sleep for reconnect_delay holding the error
Connect_Err(err) ==
    /\ pc = "connecting"
    /\ pending_err' = err
    /\ pc' = "sleeping"
    /\ UNCHANGED << config, attempts, never_joined, events, cmd_queue,
                    cmd_senders, conn_packets, conn_sent, last_result, getconn,
                    getconn_phase, stop_sending, history, conn_state, event_state,
                    joined_events, notClient >>

\* the sleep is over: run_once returns the connect error
Sleep_Done ==
    /\ pc = "sleeping"
    /\ last_result' = pending_err
    /\ pending_err' = "ok"
    /\ pc' = AfterRunOnce(pending_err)
    /\ UNCHANGED << config, attempts, never_joined, events, cmd_queue,
                    cmd_senders, conn_packets, conn_sent, getconn,
                    getconn_phase, stop_sending, history, conn_state, event_state,
                    joined_events, notClient >>

\* conn.recv() returned a packet, which ClientConn::on_packet has applied to the
\* state; on_packet of the task has sent the Packet event and runs on to its
\* next await, or returns (an error leaves run_once at once)
Recv_Packet(kind) ==
    /\ pc = "connected"
    /\ history => conn_packets < MaxPackets
    /\ LET r == OnPacket(kind) IN
        /\ conn_state' = StateOnPacket(conn_state, kind)
        /\ event_state' = EventState(conn_state, conn_state')
        /\ conn_packets' = IF history THEN conn_packets + 1 ELSE conn_packets
        /\ conn_sent' = << >>
        /\ never_joined' = IF r.wait = "on_joined" THEN FALSE ELSE never_joined
        /\ events' = Emit(events, << "Packet" >>)
        /\ IF r.err = "ok"
           THEN /\ pc' = r.wait
                /\ last_result' = last_result
           ELSE /\ pc' = AfterRunOnce(r.err)
                /\ last_result' = r.err
    /\ UNCHANGED << config, attempts, cmd_queue, cmd_senders, pending_err,
                    getconn, getconn_phase, stop_sending, history, joined_events, notClient >>

\* conn.send(Auth) or conn.send(Nick) inside on_packet has returned: its error
\* leaves run_once; after Auth on_packet returns Ok, after Nick on_joined sets
\* never_joined and awaits the send of the Joined event
OnPacket_ConnSend(send_ok) ==
    /\ pc \in { "send_auth", "send_nick" }
    /\ IF send_ok
       THEN /\ conn_sent' = IF pc = "send_auth" THEN << "Auth" >> ELSE << "Nick" >>
            /\ pc' = IF pc = "send_auth" THEN "connected" ELSE "on_joined"
            /\ never_joined' = IF pc = "send_nick" THEN FALSE ELSE never_joined
            /\ last_result' = last_result
       ELSE /\ conn_sent' = conn_sent
            /\ pc' = AfterRunOnce("Transport")
            /\ never_joined' = never_joined
            /\ last_result' = "Transport"
    /\ UNCHANGED << config, attempts, events, cmd_queue, cmd_senders,
                    conn_packets, pending_err, getconn, getconn_phase, stop_sending, history,
                    conn_state, event_state, joined_events, notClient >>

\* on_joined: the Joined event has been sent; on_packet returns Ok
OnJoined_Emit ==
    /\ pc = "on_joined"
    /\ events' = Emit(events, << "Joined" >>)
    /\ event_state' = conn_state
    /\ joined_events' = IF joined_events < 2 THEN joined_events + 1
                        ELSE joined_events
    /\ pc' = "connected"
    /\ UNCHANGED << config, attempts, never_joined, cmd_queue, cmd_senders,
                    conn_packets, conn_sent, pending_err, last_result, getconn,
                    getconn_phase, stop_sending, history, conn_state, notClient >>

\* conn.recv() returned None: break Ok(()), the Disconnected event
Recv_Closed ==
    /\ pc = "connected"
    /\ events' = Emit(events, << "Disconnected" >>)
    /\ last_result' = "ok"
    /\ pc' = AfterRunOnce("ok")
    /\ UNCHANGED << config, attempts, never_joined, cmd_queue, cmd_senders,
                    conn_packets, conn_sent, pending_err, getconn,
                    getconn_phase, stop_sending, history, conn_state, event_state,
                    joined_events, notClient >>

\* conn.recv() returned an error: `r?` leaves run_once at once
Recv_Err(err) ==
    /\ pc = "connected"
    /\ last_result' = err
    /\ pc' = AfterRunOnce(err)
    /\ UNCHANGED << config, attempts, never_joined, events, cmd_queue,
                    cmd_senders, conn_packets, conn_sent, pending_err, getconn,
                    getconn_phase, stop_sending, history, conn_state, event_state,
                    joined_events, notClient >>

\* cmd_rx.recv() returned GetConn: on_cmd answers with the handle
Cmd_GetConn ==
    /\ pc = "connected"
    /\ cmd_queue # << >>
    /\ Head(cmd_queue) = "GetConn"
    /\ cmd_queue' = Tail(cmd_queue)
    /\ getconn' = "some"
    /\ UNCHANGED << pc, config, attempts, never_joined, events, cmd_senders,
                    conn_packets, conn_sent, pending_err, last_result,
                    getconn_phase, stop_sending, history, conn_state, event_state,
                    joined_events, notClient >>

\* cmd_rx.recv() returned Stop: on_cmd returns Err(Stopped), `?` leaves run_once
Cmd_Stop ==
    /\ pc = "connected"
    /\ cmd_queue # << >>
    /\ Head(cmd_queue) = "Stop"
    /\ cmd_queue' = Tail(cmd_queue)
    /\ last_result' = "Stopped"
    /\ pc' = AfterRunOnce("Stopped")
    /\ UNCHANGED << config, attempts, never_joined, events, cmd_senders,
                    conn_packets, conn_sent, pending_err, getconn,
                    getconn_phase, stop_sending, history, conn_state, event_state,
                    joined_events, notClient >>

\* cmd_rx.recv() returned None: break Err(NoReferences), the Disconnected event
Cmd_NoReferences ==
    /\ pc = "connected"
    /\ cmd_queue = << >>
    /\ cmd_senders = 0
    /\ events' = Emit(events, << "Disconnected" >>)
    /\ last_result' = "NoReferences"
    /\ pc' = AfterRunOnce("NoReferences")
    /\ UNCHANGED << config, attempts, never_joined, cmd_queue, cmd_senders,
                    conn_packets, conn_sent, pending_err, getconn,
                    getconn_phase, stop_sending, history, conn_state, event_state,
                    joined_events, notClient >>

\* Run_Stopped with a plausible slip: Stopped is sent inside the loop and the
\* loop goes on
Run_Stopped_NoBreak ==
    /\ pc = "stopping"
    /\ events' = Emit(events, << "Stopped" >>)
    /\ pc' = "loop"
    /\ UNCHANGED << config, attempts, never_joined, cmd_queue, cmd_senders,
                    conn_packets, conn_sent, pending_err, last_result, getconn,
                    getconn_phase, stop_sending, history, conn_state, event_state,
                    joined_events, notClient >>

\* run after the loop: the Stopped event has been sent; the task has not
\* returned yet
Run_Stopped ==
    /\ pc = "stopping"
    /\ events' = Emit(events, << "Stopped" >>)
    /\ pc' = "returning"
    /\ UNCHANGED << config, attempts, never_joined, cmd_queue, cmd_senders,
                    conn_packets, conn_sent, pending_err, last_result, getconn,
                    getconn_phase, stop_sending, history, conn_state, event_state,
                    joined_events, notClient >>

\* run has returned: the task is dropped, and cmd_rx with the commands in it
Run_Return ==
    /\ pc = "returning"
    /\ pc' = "done"
    /\ cmd_queue' = << >>
    /\ getconn' = DropQueued(getconn)
    /\ UNCHANGED << config, attempts, never_joined, events, cmd_senders,
                    conn_packets, conn_sent, pending_err, last_result,
                    getconn_phase, stop_sending, history, conn_state, event_state,
                    joined_events, notClient >>

(***************************************************************************)
(* Client: the handle.                                                     *)
(***************************************************************************)
\* Client::stopped
Stopped == pc = "done"

\* Client::stop, the first half of cmd_tx.send: a slot of the channel is
\* reserved once there is room; nothing happens if the channel is closed
Client_stop ==
    /\ cmd_senders > 0
    /\ ~stop_sending
    /\ ~Stopped
    /\ Len(cmd_queue) + CmdPermits(getconn, stop_sending) < CmdChannelBufsize
    /\ stop_sending' = TRUE
    /\ UNCHANGED << pc, config, attempts, never_joined, events, cmd_queue,
                    cmd_senders, conn_packets, conn_sent, pending_err,
                    last_result, getconn, getconn_phase, history, conn_state,
                    event_state, joined_events, notClient >>

\* Client::stop, the second half of cmd_tx.send: Stop is written into the
\* reserved slot, whether or not the receiver still exists
Client_stop_Push ==
    /\ stop_sending
    /\ stop_sending' = FALSE
    /\ cmd_queue' = Append(cmd_queue, "Stop")
    /\ UNCHANGED << pc, config, attempts, never_joined, events, cmd_senders,
                    conn_packets, conn_sent, pending_err, last_result, getconn,
                    getconn_phase, history, conn_state, event_state,
                    joined_events, notClient >>

\* Client::handle, the first half of cmd_tx.send: a slot of the channel is
\* reserved once there is room; if the channel is closed the oneshot sender is
\* dropped with the command and the call returns None
Client_handle ==
    /\ cmd_senders > 0
    /\ getconn = "idle"
    /\ getconn_phase' = IF pc \in InConnection THEN "connected"
                        ELSE "not_connected"
    /\ IF Stopped
       THEN getconn' = "none"
       ELSE /\ Len(cmd_queue) + CmdPermits(getconn, stop_sending)
                   < CmdChannelBufsize
            /\ getconn' = "sending"
    /\ UNCHANGED << pc, config, attempts, never_joined, events, cmd_queue,
                    cmd_senders, conn_packets, conn_sent, pending_err,
                    last_result, stop_sending, history, conn_state,
                    event_state, joined_events, notClient >>

\* Client::handle, the second half of cmd_tx.send: GetConn is written into the
\* reserved slot, whether or not the receiver still exists, and the call
\* awaits its oneshot.  Written after the task has returned, the command stays
\* in the channel, which lives as long as a Client does
Client_handle_Push ==
    /\ getconn = "sending"
    /\ getconn' = "queued"
    /\ cmd_queue' = Append(cmd_queue, "GetConn")
    /\ UNCHANGED << pc, config, attempts, never_joined, events, cmd_senders,
                    conn_packets, conn_sent, pending_err, last_result,
                    getconn_phase, stop_sending, history, conn_state,
                    event_state, joined_events, notClient >>

\* Clone for Client
Client_clone ==
    /\ cmd_senders > 0
    /\ cmd_senders < MaxHandles
    /\ cmd_senders' = cmd_senders + 1
    /\ UNCHANGED << pc, config, attempts, never_joined, events, cmd_queue,
                    conn_packets, conn_sent, pending_err, last_result, getconn,
                    getconn_phase, stop_sending, history, conn_state, event_state,
                    joined_events, notClient >>

\* Drop for Client; a call of handle() or stop() borrows its Client
Client_drop ==
    /\ cmd_senders > (IF getconn \in { "sending", "queued" } \/ stop_sending
                      THEN 1 ELSE 0)
    /\ cmd_senders' = cmd_senders - 1
    /\ UNCHANGED << pc, config, attempts, never_joined, events, cmd_queue,
                    conn_packets, conn_sent, pending_err, last_result, getconn,
                    getconn_phase, stop_sending, history, conn_state, event_state,
                    joined_events, notClient >>

ClientStep ==
    \/ Run_Started
    \/ RunOnce_Begin
    \/ Connect_Ok
    \/ \E err \in ConnectErrors : Connect_Err(err)
    \/ Sleep_Done
    \/ \E kind \in PacketKinds : Recv_Packet(kind)
    \/ \E send_ok \in BOOLEAN : OnPacket_ConnSend(send_ok)
    \/ OnJoined_Emit
    \/ Recv_Closed
    \/ \E err \in RecvErrors : Recv_Err(err)
    \/ Cmd_GetConn
    \/ Cmd_Stop
    \/ Cmd_NoReferences
    \/ Run_Stopped
    \/ Run_Return
    \/ Client_stop
    \/ Client_stop_Push
    \/ Client_handle
    \/ Client_handle_Push
    \/ Client_clone
    \/ Client_drop

(***************************************************************************)
(* MultiClient: the aggregator task, its children, its callers.            *)
(***************************************************************************)
ChildIds == 0..(MaxClients - 1)

\* the identities (rooms) clients are added for
Rooms == { "a", "b" }

\* the tasks that call get_clients / add_client; "consumer" also drains the sink
Callers == { "consumer", "user" }

NoEvent == [ id |-> -1, ev |-> "none" ]

\* the state after MultiClient::new_with_config: the task runs, has purged its
\* empty table and waits in select
InitMulti ==
    /\ next_id = 0
    /\ clients = << >>
    /\ agg_pc = "select"
    /\ agg_held = NoEvent
    /\ event_q = << >>
    /\ out_q = << >>
    /\ multi_cmd_q = << >>
    /\ caller_pc = [ c \in Callers |-> "idle" ]
    /\ added = << >>
    /\ listed = { }
    /\ child_pc = [ i \in ChildIds |-> "unborn" ]
    /\ child_rounds = [ i \in ChildIds |-> 0 ]
    /\ child_packets = [ i \in ChildIds |-> 0 ]
    /\ emitted = [ i \in ChildIds |-> << >> ]
    /\ delivered = [ i \in ChildIds |-> << >> ]
    /\ multi_handles = 1

\* no MultiClient at all
ParkedHandle == multi_handles = 0

ParkedMulti ==
    /\ next_id = 0
    /\ clients = << >>
    /\ agg_pc = "select"
    /\ agg_held = NoEvent
    /\ event_q = << >>
    /\ out_q = << >>
    /\ multi_cmd_q = << >>
    /\ caller_pc = << >>
    /\ added = << >>
    /\ listed = { }
    /\ child_pc = << >>
    /\ child_rounds = << >>
    /\ child_packets = << >>
    /\ emitted = << >>
    /\ delivered = << >>

\* Client::stopped for child i: the command receiver went with the ended task
ChildStopped(cpc, i) == cpc[i] = "done"

\* MultiClientTask::purge_clients: retain the clients that are not stopped
PurgeClients(tab, cpc) ==
    [ i \in { j \in DOMAIN tab : ~ChildStopped(cpc, j) } |-> tab[i] ]

\* HashMap::insert
Insert(tab, id, v) ==
    [ i \in DOMAIN tab \cup { id } |-> IF i = id THEN v ELSE tab[i] ]

\* ---- a child: ClientTask::run, reduced to the events it sends ----
\* the aggregator task has ended or panicked: its receivers, its client table
\* and the commands in its channel are dropped
AggregatorGone == agg_pc \in { "ended", "panicked" }

\* event_tx.send(ev).await of child i: waits for room in the event channel; with
\* the receiver dropped the send fails at once and nothing is emitted
ChildSend(i, ev) ==
    IF AggregatorGone
    THEN UNCHANGED << event_q, emitted >>
    ELSE /\ Len(event_q) < EventChannelBufsize
         /\ event_q' = Append(event_q, [ id |-> i, ev |-> ev ])
         /\ emitted' = [ emitted EXCEPT ![i] = Append(@, ev) ]

\* run: the Started event, then the loop
Child_Started(i) ==
    /\ child_pc[i] = "start"
    /\ ChildSend(i, "Started")
    /\ child_pc' = [ child_pc EXCEPT ![i] = "loop" ]
    /\ UNCHANGED << next_id, clients, agg_pc, agg_held, out_q, multi_cmd_q,
                    caller_pc, added, listed, child_rounds, child_packets,
                    delivered, notMulti >>

\* run_once up to the connect call: the Connecting event
Child_Connecting(i) ==
    /\ child_pc[i] = "loop"
    /\ child_rounds[i] < MaxChildRounds
    /\ ChildSend(i, "Connecting")
    /\ child_rounds' = [ child_rounds EXCEPT ![i] = @ + 1 ]
    /\ child_pc' = [ child_pc EXCEPT ![i] = "connecting" ]
    /\ UNCHANGED << next_id, clients, agg_pc, agg_held, out_q, multi_cmd_q,
                    caller_pc, added, listed, child_packets, delivered,
                    notMulti >>

\* connect failed and the sleep is over: run_once returns the error with no
\* further event; a fatal one ends the loop of run
Child_ConnectErr(i, fatal) ==
    /\ child_pc[i] = "connecting"
    /\ child_pc' = [ child_pc EXCEPT ![i] = IF fatal THEN "stopping" ELSE "loop" ]
    /\ UNCHANGED << next_id, clients, agg_pc, agg_held, event_q, out_q,
                    multi_cmd_q, caller_pc, added, listed, child_rounds,
                    child_packets, emitted, delivered, notMulti >>

\* connect succeeded: the Connected event, then the receive loop
Child_Connected(i) ==
    /\ child_pc[i] = "connecting"
    /\ ChildSend(i, "Connected")
    /\ child_pc' = [ child_pc EXCEPT ![i] = "connected" ]
    /\ child_packets' = [ child_packets EXCEPT ![i] = 0 ]
    /\ UNCHANGED << next_id, clients, agg_pc, agg_held, out_q, multi_cmd_q,
                    caller_pc, added, listed, child_rounds, delivered,
                    notMulti >>

\* a packet was received: the Packet event; a snapshot-event goes on to
\* on_joined
Child_Packet(i, snapshot) ==
    /\ child_pc[i] = "connected"
    /\ child_packets[i] < MaxChildPackets
    /\ ChildSend(i, "Packet")
    /\ child_packets' = [ child_packets EXCEPT ![i] = @ + 1 ]
    /\ child_pc' = [ child_pc EXCEPT
                       ![i] = IF snapshot THEN "on_joined" ELSE "connected" ]
    /\ UNCHANGED << next_id, clients, agg_pc, agg_held, out_q, multi_cmd_q,
                    caller_pc, added, listed, child_rounds, delivered,
                    notMulti >>

\* on_joined: the Joined event
Child_Joined(i) ==
    /\ child_pc[i] = "on_joined"
    /\ ChildSend(i, "Joined")
    /\ child_pc' = [ child_pc EXCEPT ![i] = "connected" ]
    /\ UNCHANGED << next_id, clients, agg_pc, agg_held, out_q, multi_cmd_q,
                    caller_pc, added, listed, child_rounds, child_packets,
                    delivered, notMulti >>

\* the attempt left its receive loop through `?`: an error of recv or of
\* on_packet, or the Stop command; no Disconnected event
Child_RecvErr(i, fatal) ==
    /\ child_pc[i] = "connected"
    /\ child_pc' = [ child_pc EXCEPT ![i] = IF fatal THEN "stopping" ELSE "loop" ]
    /\ UNCHANGED << next_id, clients, agg_pc, agg_held, event_q, out_q,
                    multi_cmd_q, caller_pc, added, listed, child_rounds,
                    child_packets, emitted, delivered, notMulti >>

\* the receive loop broke (the connection was closed, or NoReferences, which
\* is fatal): the Disconnected event
Child_Disconnected(i, fatal) ==
    /\ child_pc[i] = "connected"
    /\ ChildSend(i, "Disconnected")
    /\ child_pc' = [ child_pc EXCEPT ![i] = IF fatal THEN "stopping" ELSE "loop" ]
    /\ UNCHANGED << next_id, clients, agg_pc, agg_held, out_q, multi_cmd_q,
                    caller_pc, added, listed, child_rounds, child_packets,
                    delivered, notMulti >>

\* run after its loop: the Stopped event; the task has not returned yet
Child_Stopped(i) ==
    /\ child_pc[i] = "stopping"
    /\ ChildSend(i, "Stopped")
    /\ child_pc' = [ child_pc EXCEPT ![i] = "returning" ]
    /\ UNCHANGED << next_id, clients, agg_pc, agg_held, out_q, multi_cmd_q,
                    caller_pc, added, listed, child_rounds, child_packets,
                    delivered, notMulti >>

\* run has returned: the task is dropped, and its cmd_rx with it
Child_Return(i) ==
    /\ child_pc[i] = "returning"
    /\ child_pc' = [ child_pc EXCEPT ![i] = "done" ]
    /\ UNCHANGED << next_id, clients, agg_pc, agg_held, event_q, out_q,
                    multi_cmd_q, caller_pc, added, listed, child_rounds,
                    child_packets, emitted, delivered, notMulti >>

\* ---- MultiClientTask::run ----
\* event_rx.recv() returned an event: on_event looks the client up; an event of
\* an unknown client is dropped and the loop purges again
Agg_RecvEvent ==
    /\ agg_pc = "select"
    /\ event_q # << >>
    /\ event_q' = Tail(event_q)
    /\ IF Head(event_q).id \in DOMAIN clients
       THEN /\ agg_held' = Head(event_q)
            /\ agg_pc' = "forward"
            /\ clients' = clients
       ELSE /\ agg_held' = NoEvent
            /\ agg_pc' = "select"
            /\ clients' = PurgeClients(clients, child_pc)
    /\ UNCHANGED << next_id, out_q, multi_cmd_q, caller_pc, added, listed,
                    child_pc, child_rounds, child_packets, emitted, delivered,
                    notMulti >>

\* on_event: out_tx.send(event).await got room in the sink; the loop purges
Agg_Forward ==
    /\ agg_pc = "forward"
    /\ Len(out_q) < OutBufsize
    /\ out_q' = Append(out_q, agg_held)
    /\ delivered' = [ delivered EXCEPT ![agg_held.id] = Append(@, agg_held.ev) ]
    /\ agg_held' = NoEvent
    /\ agg_pc' = "select"
    /\ clients' = PurgeClients(clients, child_pc)
    /\ UNCHANGED << next_id, event_q, multi_cmd_q, caller_pc, added, listed,
                    child_pc, child_rounds, child_packets, emitted,
                    notMulti >>

\* cmd_rx.recv() returned GetClients: on_cmd purges and answers; the loop purges
Agg_GetClients ==
    /\ agg_pc = "select"
    /\ multi_cmd_q # << >>
    /\ Head(multi_cmd_q).cmd = "GetClients"
    /\ multi_cmd_q' = Tail(multi_cmd_q)
    /\ clients' = PurgeClients(clients, child_pc)
    /\ listed' = DOMAIN clients'
    /\ caller_pc' = [ caller_pc EXCEPT ![Head(multi_cmd_q).from] = "idle" ]
    /\ UNCHANGED << next_id, agg_pc, agg_held, event_q, out_q, added, child_pc,
                    child_rounds, child_packets, emitted, delivered,
                    notMulti >>

\* the callers whose oneshot sender went with the commands of a dropped channel
DropCommands(cpc, q) ==
    [ c \in DOMAIN cpc |->
        IF \E k \in DOMAIN q : q[k].from = c THEN "panicked" ELSE cpc[c] ]

\* the AddClient arm with a plausible slip: next_id is not advanced
Agg_AddClient_KeepsId ==
    /\ agg_pc = "select"
    /\ multi_cmd_q # << >>
    /\ Head(multi_cmd_q).cmd = "AddClient"
    /\ next_id < MaxClients
    /\ IF next_id \in DOMAIN clients
       THEN /\ agg_pc' = "panicked"
            /\ multi_cmd_q' = << >>
            /\ caller_pc' = DropCommands(caller_pc, multi_cmd_q)
            /\ UNCHANGED << next_id, child_pc, clients, added >>
       ELSE /\ multi_cmd_q' = Tail(multi_cmd_q)
            /\ next_id' = next_id
            /\ child_pc' = [ child_pc EXCEPT ![next_id] = "start" ]
            /\ clients' = PurgeClients(Insert(clients, next_id,
                                              Head(multi_cmd_q).room),
                                       child_pc')
            /\ added' = Insert(added, next_id, Head(multi_cmd_q).room)
            /\ caller_pc' = [ caller_pc EXCEPT
                                 ![Head(multi_cmd_q).from] = "idle" ]
            /\ agg_pc' = agg_pc
    /\ UNCHANGED << agg_held, event_q, out_q, listed, child_rounds, child_packets,
                    emitted, delivered,
                    notMulti >>

\* cmd_rx.recv() returned AddClient: on_cmd asserts that the next id is no key
\* (the panic drops the task with its channels), spawns a client under it,
\* records it and answers with it; the loop purges
Agg_AddClient ==
    /\ agg_pc = "select"
    /\ multi_cmd_q # << >>
    /\ Head(multi_cmd_q).cmd = "AddClient"
    /\ next_id < MaxClients
    /\ IF next_id \in DOMAIN clients
       THEN /\ agg_pc' = "panicked"
            /\ multi_cmd_q' = << >>
            /\ caller_pc' = DropCommands(caller_pc, multi_cmd_q)
            /\ UNCHANGED << next_id, child_pc, clients, added >>
       ELSE /\ multi_cmd_q' = Tail(multi_cmd_q)
            /\ next_id' = next_id + 1
            /\ child_pc' = [ child_pc EXCEPT ![next_id] = "start" ]
            /\ clients' = PurgeClients(Insert(clients, next_id,
                                              Head(multi_cmd_q).room),
                                       child_pc')
            /\ added' = Insert(added, next_id, Head(multi_cmd_q).room)
            /\ caller_pc' = [ caller_pc EXCEPT
                                 ![Head(multi_cmd_q).from] = "idle" ]
            /\ agg_pc' = agg_pc
    /\ UNCHANGED << agg_held, event_q, out_q, listed, child_rounds, child_packets,
                    emitted, delivered,
                    notMulti >>

\* cmd_rx.recv() returned None, every MultiClient being dropped: run breaks
\* out of its loop and the task ends; the events left in the event channel are
\* never received
Agg_CmdClosed ==
    /\ agg_pc = "select"
    /\ multi_handles = 0
    /\ multi_cmd_q = << >>
    /\ agg_pc' = "ended"
    /\ clients' = << >>
    /\ UNCHANGED << next_id, agg_held, event_q, out_q, multi_cmd_q, caller_pc,
                    added,
                    listed, child_pc, child_rounds, child_packets, emitted, delivered,
                    notMulti >>

\* ---- the callers ----
\* MultiClient::get_clients: send the command, then await the answer
Call_get_clients(c) ==
    /\ caller_pc[c] = "idle"
    /\ multi_handles > 0
    /\ IF AggregatorGone
       THEN /\ multi_cmd_q' = multi_cmd_q
            /\ caller_pc' = [ caller_pc EXCEPT ![c] = "panicked" ]
       ELSE /\ Len(multi_cmd_q) < MultiCmdChannelBufsize
            /\ multi_cmd_q' = Append(multi_cmd_q,
                                     [ cmd |-> "GetClients", from |-> c,
                                       room |-> "-" ])
            /\ caller_pc' = [ caller_pc EXCEPT ![c] = "waiting" ]
    /\ UNCHANGED << next_id, clients, agg_pc, agg_held, event_q, out_q,
                    added, listed, child_pc, child_rounds, child_packets, emitted, delivered,
                    notMulti >>

\* AddClient commands waiting in the command channel
AddsQueued ==
    Cardinality({ k \in DOMAIN multi_cmd_q : multi_cmd_q[k].cmd = "AddClient" })

\* MultiClient::add_client: send the command, then await the answer
Call_add_client(c, room) ==
    /\ caller_pc[c] = "idle"
    /\ multi_handles > 0
    /\ next_id + AddsQueued < MaxClients
    /\ IF AggregatorGone
       THEN /\ multi_cmd_q' = multi_cmd_q
            /\ caller_pc' = [ caller_pc EXCEPT ![c] = "panicked" ]
       ELSE /\ Len(multi_cmd_q) < MultiCmdChannelBufsize
            /\ multi_cmd_q' = Append(multi_cmd_q,
                                     [ cmd |-> "AddClient", from |-> c,
                                       room |-> room ])
            /\ caller_pc' = [ caller_pc EXCEPT ![c] = "waiting" ]
    /\ UNCHANGED << next_id, clients, agg_pc, agg_held, event_q, out_q,
                    added, listed, child_pc, child_rounds, child_packets, emitted, delivered,
                    notMulti >>

\* the consumer takes the next event from the sink
Consumer_Recv ==
    /\ caller_pc["consumer"] = "idle"
    /\ out_q # << >>
    /\ out_q' = Tail(out_q)
    /\ UNCHANGED << next_id, clients, agg_pc, agg_held, event_q, multi_cmd_q,
                    caller_pc, added, listed, child_pc, child_rounds, child_packets, emitted,
                    delivered,
                    notMulti >>

\* a call of get_clients or add_client is awaiting its answer
CallPending == \E c \in Callers : caller_pc[c] = "waiting"

\* MultiClient::clone (derived): one more sender of the command channel
MultiClient_clone ==
    /\ multi_handles > 0
    /\ multi_handles < MaxHandles
    /\ multi_handles' = multi_handles + 1
    /\ UNCHANGED notHandle

\* a MultiClient is dropped; the one a pending call borrows cannot be
MultiClient_drop ==
    /\ multi_handles > (IF CallPending THEN 1 ELSE 0)
    /\ multi_handles' = multi_handles - 1
    /\ UNCHANGED notHandle

MultiStep ==
    \/ \E i \in ChildIds : Child_Started(i)
    \/ \E i \in ChildIds : Child_Connecting(i)
    \/ \E i \in ChildIds, fatal \in BOOLEAN : Child_ConnectErr(i, fatal)
    \/ \E i \in ChildIds : Child_Connected(i)
    \/ \E i \in ChildIds, snapshot \in BOOLEAN : Child_Packet(i, snapshot)
    \/ \E i \in ChildIds : Child_Joined(i)
    \/ \E i \in ChildIds, fatal \in BOOLEAN : Child_RecvErr(i, fatal)
    \/ \E i \in ChildIds, fatal \in BOOLEAN : Child_Disconnected(i, fatal)
    \/ \E i \in ChildIds : Child_Stopped(i)
    \/ \E i \in ChildIds : Child_Return(i)
    \/ Agg_RecvEvent
    \/ Agg_Forward
    \/ Agg_GetClients
    \/ Agg_AddClient
    \/ Agg_CmdClosed
    \/ \E c \in Callers : Call_get_clients(c)
    \/ \E c \in Callers, room \in Rooms : Call_add_client(c, room)
    \/ Consumer_Recv
    \/ MultiClient_clone
    \/ MultiClient_drop

(***************************************************************************)
(* ClientConn, its Replies map and the futures of ClientConnHandle::send.  *)
(***************************************************************************)
Waiters == 1..MaxCmds

\* the packets the server sends: id 0 stands for no id; content is a server
\* error string ("err") or data, of the type of the command's Reply ("ok") or
\* of another type ("other")
ServerPackets ==
    [ id : 0..(MaxCmds + MaxDirectSends), content : { "ok", "other", "err" } ]

\* the values of the ConnCommand channel
SendCmd(w) == [ cmd |-> "SendCmd", w |-> w ]
GetState == [ cmd |-> "GetState", w |-> 0 ]

\* the values of a oneshot
SlotOpen == [ kind |-> "open", id |-> 0, content |-> "-" ]
SlotClosed == [ kind |-> "closed", id |-> 0, content |-> "-" ]
SlotSendErr == [ kind |-> "send_err", id |-> 0, content |-> "-" ]
SlotPacket(packet) ==
    [ kind |-> "packet", id |-> packet.id, content |-> packet.content ]

\* the state after ClientConn::connect_with_config
InitConn ==
    /\ cc_alive = TRUE
    /\ cc_last_id = 0
    /\ cc_pending = << >>
    /\ cc_rx = << >>
    /\ cc_wire = << >>
    /\ w_state = [ w \in Waiters |-> "idle" ]
    /\ w_id = [ w \in Waiters |-> 0 ]
    /\ w_slot = [ w \in Waiters |-> SlotOpen ]
    /\ w_result = [ w \in Waiters |-> "none" ]
    /\ cc_submitted = << >>
    /\ cc_recv = "idle"
    /\ cc_cmd = 0
    /\ cc_ws = "open"
    /\ cc_direct = 0
    /\ s_call = "none"

ParkedConn ==
    /\ cc_alive = FALSE
    /\ cc_last_id = 0
    /\ cc_pending = << >>
    /\ cc_rx = << >>
    /\ cc_wire = << >>
    /\ w_state = << >>
    /\ w_id = << >>
    /\ w_slot = << >>
    /\ w_result = << >>
    /\ cc_submitted = << >>
    /\ cc_recv = "idle"
    /\ cc_cmd = 0
    /\ cc_ws = "closed"
    /\ cc_direct = 0
    /\ s_call = "none"

\* Sender::is_closed for the waiter of a pending entry: its receiver is gone,
\* because the future was dropped or has resolved
ReceiverGone(st, w) == st[w] \in { "dropped", "resolved" }

\* Replies::purge with a plausible slip: every entry is retained
Purge_KeepsAll(pend, st) == pend

\* Replies::purge: retain the entries whose sender is not closed
Purge(pend, st) ==
    [ id \in { i \in DOMAIN pend : ~ReceiverGone(st, pend[i]) } |-> pend[id] ]

\* Replies::wait_for: insert a fresh sender under id
WaitFor(pend, id, w) ==
    [ i \in DOMAIN pend \cup { id } |-> IF i = id THEN w ELSE pend[i] ]

\* Replies::complete with a plausible slip: the entry is looked up, not removed
Complete_KeepsEntry(pend, id) == pend

\* Replies::complete, the map: the entry of id is removed
Complete(pend, id) ==
    [ i \in DOMAIN pend \ { id } |-> pend[i] ]

\* Replies::complete, the oneshots: the removed sender sends the packet, which
\* arrives if the receiver still exists
CompleteSlots(pend, id, packet, st, slots) ==
    IF id \in DOMAIN pend /\ ~ReceiverGone(st, pend[id])
    THEN [ slots EXCEPT ![pend[id]] = SlotPacket(packet) ]
    ELSE slots

\* the senders a dropped ClientConn takes with it: those in queued commands and
\* those in the pending map; a waiter still listening sees its oneshot closed
DropSenders(st, slots) ==
    [ w \in Waiters |->
        IF st[w] \in { "queued", "awaiting" } /\ slots[w] = SlotOpen
        THEN SlotClosed ELSE slots[w] ]

\* the future of ClientConnHandle::send: what it resolves to once its oneshot
\* is no longer open. stage: queued (awaiting the PendingReply) or awaiting
\* (in PendingReply::get).  Data of another type than the command's Reply
\* fails try_into.
FutureResult(stage, slot) ==
    IF slot.kind = "closed" THEN "ConnectionClosed"
    ELSE IF slot.kind = "send_err" THEN "Transport"
    ELSE IF slot.content = "err" THEN "Euph"
    ELSE IF slot.content # "ok" THEN "ReceivedUnexpectedPacket"
    ELSE "Reply"

\* PendingReply::get when the deadline passes, as mapped by the future
TimedOutResult == "CommandTimeout"

\* mpsc::Sender::send on the ConnCommand channel with a plausible slip: the
\* command goes to the front of the queue
ChannelSend_Front(q, c) == << c >> \o q

\* mpsc::Sender::send on the ConnCommand channel: the command goes to the back
\* of the queue, rx.recv() takes from the front
ChannelSend(q, c) == Append(q, c)

\* ClientConn::send with a plausible slip: the counter is read, not advanced
NextId_NotAdvanced(last) == IF last = 0 THEN 1 ELSE last

\* ClientConn::send: last_id.wrapping_add(1).  The counter is a usize, the runs
\* explored here stay far below usize::MAX, where it would wrap to 0.
NextId(last) == last + 1

\* ---- ClientConn::recv ----
\* the owner calls recv: the first round of the loop purges, then waits in
\* select!
Conn_recv ==
    /\ cc_alive
    /\ cc_recv = "idle"
    /\ cc_recv' = "select"
    /\ cc_pending' = Purge(cc_pending, w_state)
    /\ UNCHANGED << cc_alive, cc_last_id, cc_rx, cc_wire, w_state, w_id, w_slot,
                    w_result, cc_submitted, cc_cmd, cc_ws, cc_direct,
                    s_call, notConn >>

\* select!: conn.recv() returned a packet; on_packet completes the pending
\* reply of its id (the State it updates first is the subject of
\* State_on_data); recv returns the packet, and nothing is purged before the
\* next call
Conn_RecvPacket(packet) ==
    /\ cc_alive
    /\ cc_recv = "select"
    /\ cc_ws # "closed"
    /\ w_slot' = IF packet.id # 0
                 THEN CompleteSlots(cc_pending, packet.id, packet, w_state, w_slot)
                 ELSE w_slot
    /\ cc_pending' = IF packet.id # 0
                     THEN Complete(cc_pending, packet.id)
                     ELSE cc_pending
    /\ cc_recv' = "idle"
    /\ UNCHANGED << cc_alive, cc_last_id, cc_rx, cc_wire, w_state, w_id, w_result,
                    cc_submitted, cc_cmd, cc_ws, cc_direct, s_call, notConn >>

\* select!: conn.recv() returned None, or an error that `packet?` passes on:
\* the connection is closed and recv returns
Conn_RecvNone ==
    /\ cc_alive
    /\ cc_recv = "select"
    /\ cc_ws' = "closed"
    /\ cc_recv' = "idle"
    /\ UNCHANGED << cc_alive, cc_last_id, cc_pending, cc_rx, cc_wire, w_state, w_id,
                    w_slot, w_result, cc_submitted, cc_cmd, cc_direct,
                    s_call, notConn >>

\* select!: rx.recv() returned SendCmd; on_cmd calls send, which advances
\* last_id and awaits conn.send
Conn_OnCmd_Send ==
    /\ cc_alive
    /\ cc_recv = "select"
    /\ cc_rx # << >>
    /\ Head(cc_rx).cmd = "SendCmd"
    /\ cc_rx' = Tail(cc_rx)
    /\ cc_cmd' = Head(cc_rx).w
    /\ cc_last_id' = NextId(cc_last_id)
    /\ cc_recv' = "on_cmd"
    /\ UNCHANGED << cc_alive, cc_pending, cc_wire, w_state, w_id, w_slot, w_result,
                    cc_submitted, cc_ws, cc_direct, s_call, notConn >>

\* on_cmd: conn.send has finished; the PendingReply of wait_for, or the send
\* error, goes to the waiter; the loop continues with its purge and select!
Conn_OnCmd(send_ok) ==
    /\ cc_alive
    /\ cc_recv = "on_cmd"
    /\ cc_ws = "closed" => ~send_ok
    /\ LET w == cc_cmd
           id == cc_last_id
           listening == w_state[w] = "queued"
       IN  IF send_ok
           THEN /\ cc_wire' = Append(cc_wire, id)
                /\ w_id' = [ w_id EXCEPT ![w] = id ]
                /\ w_state' = IF listening
                              THEN [ w_state EXCEPT ![w] = "awaiting" ]
                              ELSE w_state
                /\ cc_pending' = Purge(WaitFor(cc_pending, id, w), w_state')
                /\ w_slot' = w_slot
           ELSE /\ cc_wire' = cc_wire
                /\ w_id' = w_id
                /\ w_state' = w_state
                /\ cc_pending' = Purge(cc_pending, w_state)
                /\ w_slot' = IF listening
                             THEN [ w_slot EXCEPT ![w] = SlotSendErr ]
                             ELSE w_slot
    /\ cc_cmd' = 0
    /\ cc_recv' = "select"
    /\ UNCHANGED << cc_alive, cc_last_id, cc_rx, w_result, cc_submitted, cc_ws,
                    cc_direct, s_call, notConn >>

\* select!: rx.recv() returned GetState; on_cmd answers with a clone of the
\* state; the loop continues with its purge and select!
Conn_OnCmd_GetState ==
    /\ cc_alive
    /\ cc_recv = "select"
    /\ cc_rx # << >>
    /\ Head(cc_rx).cmd = "GetState"
    /\ cc_rx' = Tail(cc_rx)
    /\ s_call' = "State"
    /\ cc_pending' = Purge(cc_pending, w_state)
    /\ UNCHANGED << cc_alive, cc_last_id, cc_wire, w_state, w_id, w_slot, w_result,
                    cc_submitted, cc_recv, cc_cmd, cc_ws, cc_direct,
                    notConn >>

\* the owner drops the future of recv (it lost a select! of its own).  In
\* select! nothing is lost.  In on_cmd the command was taken and last_id
\* advanced; the oneshot sender of the command is dropped with the future, and
\* the frame was written or not, depending on how far conn.send got
Conn_RecvCancel(written) ==
    /\ cc_alive
    /\ cc_recv \in { "select", "on_cmd" }
    /\ cc_recv' = "idle"
    /\ IF cc_recv = "on_cmd"
       THEN /\ cc_ws = "closed" => ~written
            /\ cc_wire' = IF written THEN Append(cc_wire, cc_last_id) ELSE cc_wire
            /\ w_slot' = IF w_state[cc_cmd] = "queued"
                         THEN [ w_slot EXCEPT ![cc_cmd] = SlotClosed ]
                         ELSE w_slot
            /\ cc_cmd' = 0
       ELSE /\ ~written
            /\ UNCHANGED << cc_wire, w_slot, cc_cmd >>
    /\ UNCHANGED << cc_alive, cc_last_id, cc_pending, cc_rx, w_state, w_id,
                    w_result, cc_submitted, cc_ws, cc_direct, s_call,
                    notConn >>

\* ---- the other methods of the owner of the ClientConn ----
\* ClientConn::send called by the owner: the next id is allocated and the frame
\* written; nothing waits for a reply
Conn_send(send_ok) ==
    /\ cc_alive
    /\ cc_recv = "idle"
    /\ cc_direct < MaxDirectSends
    /\ cc_ws = "closed" => ~send_ok
    /\ cc_direct' = cc_direct + 1
    /\ cc_last_id' = NextId(cc_last_id)
    /\ cc_wire' = IF send_ok THEN Append(cc_wire, cc_last_id') ELSE cc_wire
    /\ UNCHANGED << cc_alive, cc_pending, cc_rx, w_state, w_id, w_slot, w_result,
                    cc_submitted, cc_recv, cc_cmd, cc_ws, s_call,
                    notConn >>

\* ClientConn::close: the connection starts closing; recv goes on until it
\* returns None
Conn_close ==
    /\ cc_alive
    /\ cc_recv = "idle"
    /\ cc_ws = "open"
    /\ cc_ws' = "closing"
    /\ UNCHANGED << cc_alive, cc_last_id, cc_pending, cc_rx, cc_wire, w_state, w_id,
                    w_slot, w_result, cc_submitted, cc_recv, cc_cmd, cc_direct, s_call, notConn >>

\* the ClientConn is dropped: its receiver, the queued commands and the pending
\* map go with it; a send that holds its slot is not reached
Conn_Drop ==
    /\ cc_alive
    /\ cc_recv = "idle"
    /\ cc_alive' = FALSE
    /\ cc_rx' = << >>
    /\ cc_pending' = << >>
    /\ w_slot' = DropSenders(w_state, w_slot)
    /\ s_call' = IF s_call = "queued" THEN "ConnectionClosed" ELSE s_call
    /\ UNCHANGED << cc_last_id, cc_wire, w_state, w_id, w_result, cc_submitted,
                    cc_recv, cc_cmd, cc_ws, cc_direct, notConn >>

\* ---- ClientConnHandle::send and its future ----
\* the slots of the ConnCommand channel held by sends that have not written
\* their command yet
ConnPermits(st, sc) ==
    Cardinality({ w \in Waiters : st[w] = "sending" })
        + (IF sc = "sending" THEN 1 ELSE 0)

\* send, the first half of tx.send: a slot of the channel is reserved once
\* there is room, or the channel is closed
Handle_send(w) ==
    /\ w_state[w] = "idle"
    /\ IF cc_alive
       THEN /\ Len(cc_rx) + ConnPermits(w_state, s_call) < ConnChannelBufsize
            /\ w_state' = [ w_state EXCEPT ![w] = "sending" ]
            /\ w_result' = w_result
       ELSE /\ w_state' = [ w_state EXCEPT ![w] = "resolved" ]
            /\ w_result' = [ w_result EXCEPT ![w] = "ConnectionClosed" ]
    /\ UNCHANGED << cc_alive, cc_last_id, cc_pending, cc_rx, cc_wire, w_id, w_slot,
                    cc_submitted, cc_recv, cc_cmd, cc_ws, cc_direct, s_call,
                    notConn >>

\* send, the second half of tx.send: the command is written into the reserved
\* slot, whether or not the receiver still exists, and send returns the reply
\* future.  Written after the ClientConn was dropped, the command stays in the
\* channel with its oneshot sender for as long as the handles live
Handle_send_Push(w) ==
    /\ w_state[w] = "sending"
    /\ cc_rx' = ChannelSend(cc_rx, SendCmd(w))
    /\ cc_submitted' = Append(cc_submitted, w)
    /\ w_state' = [ w_state EXCEPT ![w] = "queued" ]
    /\ UNCHANGED << cc_alive, cc_last_id, cc_pending, cc_wire, w_id, w_slot,
                    w_result, cc_recv, cc_cmd, cc_ws, cc_direct, s_call, notConn >>

\* ClientConnHandle::state, the first half of tx.send: a slot of the same
\* channel is reserved, or the channel is closed
Handle_state ==
    /\ s_call = "none"
    /\ IF cc_alive
       THEN /\ Len(cc_rx) + ConnPermits(w_state, s_call) < ConnChannelBufsize
            /\ s_call' = "sending"
       ELSE s_call' = "ConnectionClosed"
    /\ UNCHANGED << cc_alive, cc_last_id, cc_pending, cc_rx, cc_wire, w_state,
                    w_id, w_slot, w_result, cc_submitted, cc_recv, cc_cmd, cc_ws,
                    cc_direct, notConn >>

\* ClientConnHandle::state, the second half of tx.send: GetState is written
\* into the reserved slot, whether or not the receiver still exists, and the
\* call awaits its oneshot
Handle_state_Push ==
    /\ s_call = "sending"
    /\ cc_rx' = ChannelSend(cc_rx, GetState)
    /\ s_call' = "queued"
    /\ UNCHANGED << cc_alive, cc_last_id, cc_pending, cc_wire, w_state, w_id,
                    w_slot, w_result, cc_submitted, cc_recv, cc_cmd, cc_ws,
                    cc_direct, notConn >>

\* the future finds its oneshot answered or closed
Future_Resolve(w) ==
    /\ w_state[w] \in { "queued", "awaiting" }
    /\ w_slot[w] # SlotOpen
    /\ w_result' = [ w_result EXCEPT ![w] = FutureResult(w_state[w], w_slot[w]) ]
    /\ w_state' = [ w_state EXCEPT ![w] = "resolved" ]
    /\ UNCHANGED << cc_alive, cc_last_id, cc_pending, cc_rx, cc_wire, w_id, w_slot,
                    cc_submitted, cc_recv, cc_cmd, cc_ws, cc_direct,
                    s_call, notConn >>

\* PendingReply::get: the command timeout passes before the oneshot is answered
Future_Timeout(w) ==
    /\ w_state[w] = "awaiting"
    /\ w_slot[w] = SlotOpen
    /\ w_result' = [ w_result EXCEPT ![w] = TimedOutResult ]
    /\ w_state' = [ w_state EXCEPT ![w] = "resolved" ]
    /\ UNCHANGED << cc_alive, cc_last_id, cc_pending, cc_rx, cc_wire, w_id, w_slot,
                    cc_submitted, cc_recv, cc_cmd, cc_ws, cc_direct,
                    s_call, notConn >>

\* the caller drops the future
Future_Drop(w) ==
    /\ w_state[w] \in { "queued", "awaiting" }
    /\ w_state' = [ w_state EXCEPT ![w] = "dropped" ]
    /\ UNCHANGED << cc_alive, cc_last_id, cc_pending, cc_rx, cc_wire, w_id, w_slot,
                    w_result, cc_submitted, cc_recv, cc_cmd, cc_ws, cc_direct, s_call, notConn >>

ConnStep ==
    \/ Conn_recv
    \/ \E packet \in ServerPackets : Conn_RecvPacket(packet)
    \/ Conn_RecvNone
    \/ Conn_OnCmd_Send
    \/ \E send_ok \in BOOLEAN : Conn_OnCmd(send_ok)
    \/ Conn_OnCmd_GetState
    \/ \E written \in BOOLEAN : Conn_RecvCancel(written)
    \/ \E send_ok \in BOOLEAN : Conn_send(send_ok)
    \/ Conn_close
    \/ Conn_Drop
    \/ \E w \in Waiters : Handle_send(w)
    \/ \E w \in Waiters : Handle_send_Push(w)
    \/ Handle_state
    \/ Handle_state_Push
    \/ \E w \in Waiters : Future_Resolve(w)
    \/ \E w \in Waiters : Future_Timeout(w)
    \/ \E w \in Waiters : Future_Drop(w)

(***************************************************************************)
(* Conn (conn.rs): the pings of one connection.  Conn::recv loops over     *)
(* websocket messages, commands and ping ticks; each action below is one   *)
(* round of that loop.  The payload of a ping is made of the time of its   *)
(* tick, so the pings of different ticks carry different payloads.         *)
(***************************************************************************)
\* Option::None of a ping payload
None == 0

\* the payloads pings can carry: the times of the ticks
Payloads == 1 .. MaxTicks

\* Conn::wrap
InitPing ==
    /\ ws_open = TRUE
    /\ last_id = 0
    /\ ticks = 0
    /\ last_ws_ping_payload = None
    /\ last_ws_ping_replied_to = FALSE
    /\ last_euph_ping_payload = None
    /\ last_euph_ping_replied_to = FALSE
    /\ recv_result = "none"
    /\ ws_pongs = {}
    /\ euph_ping_replies = {}
    /\ sent_rpl = << >>

\* no connection of its own: the state the other specifications leave alone
ParkedPing ==
    /\ ws_open = FALSE
    /\ last_id = 0
    /\ ticks = 0
    /\ last_ws_ping_payload = None
    /\ last_ws_ping_replied_to = FALSE
    /\ last_euph_ping_payload = None
    /\ last_euph_ping_replied_to = FALSE
    /\ recv_result = "none"
    /\ ws_pongs = {}
    /\ euph_ping_replies = {}
    /\ sent_rpl = << >>

\* Conn::on_ping, the check of the previous pings: a ping was sent and its
\* replied_to flag is not set
PreviousPingUnreplied ==
    \/ last_ws_ping_payload # None /\ ~last_ws_ping_replied_to
    \/ last_euph_ping_payload # None /\ ~last_euph_ping_replied_to

\* Conn::disconnect: the websocket is closed and the error is ConnectionClosed
Disconnect == "ConnectionClosed"

\* Conn::recv, ConnEvent::Ping: on_ping.  ws_ok and cmd_ok tell whether the
\* websocket accepted the ping frame and the ping command.
On_Ping(ws_ok, cmd_ok) ==
    /\ ws_open
    /\ ticks < MaxTicks
    /\ IF PreviousPingUnreplied
       THEN /\ ws_open' = FALSE
            /\ recv_result' = Disconnect
            /\ UNCHANGED << last_id, ticks, last_ws_ping_payload,
                            last_euph_ping_payload, ws_pongs, euph_ping_replies >>
       ELSE /\ ticks' = ticks + 1
            /\ last_ws_ping_payload' = ticks + 1
            /\ ws_pongs' = {}
            /\ IF ~ws_ok
               THEN /\ ws_open' = FALSE
                    /\ recv_result' = "Tungstenite"
                    /\ UNCHANGED << last_id, last_euph_ping_payload,
                                    euph_ping_replies >>
               ELSE /\ last_euph_ping_payload' = ticks + 1
                    /\ euph_ping_replies' = {}
                    /\ last_id' = last_id + 1
                    /\ IF cmd_ok
                       THEN UNCHANGED << ws_open, recv_result >>
                       ELSE /\ ws_open' = FALSE
                            /\ recv_result' = "Tungstenite"
    /\ UNCHANGED << last_ws_ping_replied_to, last_euph_ping_replied_to, sent_rpl, notPing >>

\* the Pong arm of on_ws with a plausible slip: every pong counts
On_Pong_AnyPayload(payload) ==
    /\ ws_open
    /\ last_ws_ping_replied_to' = TRUE
    /\ ws_pongs' = ws_pongs \cup { payload }
    /\ UNCHANGED << ws_open, last_id, ticks, last_ws_ping_payload,
                    last_euph_ping_payload, last_euph_ping_replied_to,
                    recv_result, euph_ping_replies, sent_rpl, notPing >>

\* Conn::on_ws, Message::Pong: the flag is set when the payload is the one of
\* the last ping
On_Pong(payload) ==
    /\ ws_open
    /\ last_ws_ping_replied_to' =
          IF last_ws_ping_payload # None /\ last_ws_ping_payload = payload
          THEN TRUE ELSE last_ws_ping_replied_to
    /\ ws_pongs' = ws_pongs \cup { payload }
    /\ UNCHANGED << ws_open, last_id, ticks, last_ws_ping_payload,
                    last_euph_ping_payload, last_euph_ping_replied_to,
                    recv_result, euph_ping_replies, sent_rpl, notPing >>

\* Conn::on_ws, a text message holding a ping-reply: on_packet, on_data; recv
\* returns the packet.  time is the reply's optional time.
On_PingReply(time) ==
    /\ ws_open
    /\ last_euph_ping_replied_to' =
          IF last_euph_ping_payload # None /\ last_euph_ping_payload = time
          THEN TRUE ELSE last_euph_ping_replied_to
    /\ euph_ping_replies' = euph_ping_replies \cup { time }
    /\ recv_result' = "packet"
    /\ UNCHANGED << ws_open, last_id, ticks, last_ws_ping_payload,
                    last_ws_ping_replied_to, last_euph_ping_payload, ws_pongs,
                    sent_rpl, notPing >>

\* the ids a ping-event packet can carry: none, or one the server chose
PacketIds == { << >>, << "p1" >> }

\* the times ping-events carry
EventTimes == { 7, 8 }

\* Conn::send_rpl with a plausible slip: the reply gets the next id of the
\* connection instead of the packet's
ReplyPacket_OwnId(id, time) ==
    [ type |-> "ping-reply", id |-> << "1" >>, time |-> << time >> ]

\* Conn::send_rpl for PingReply { time: Some(time) }: the packet handed to
\* the websocket
ReplyPacket(id, time) ==
    [ type |-> "ping-reply", id |-> id, time |-> << time >> ]

\* Conn::on_ws, a text message holding a ping-event with the given id and
\* time: on_data answers it with send_rpl; recv returns the packet, or the
\* error of the send
On_PingEvent(id, time, send_ok) ==
    /\ ws_open
    /\ Len(sent_rpl) < MaxPingEvents
    /\ ws_open' = send_ok
    /\ sent_rpl' = IF send_ok THEN Append(sent_rpl, ReplyPacket(id, time))
                   ELSE sent_rpl
    /\ recv_result' = IF send_ok THEN "packet" ELSE "Tungstenite"
    /\ UNCHANGED << last_id, ticks, last_ws_ping_payload, last_ws_ping_replied_to,
                    last_euph_ping_payload, last_euph_ping_replied_to, ws_pongs,
                    euph_ping_replies, notPing >>

\* Conn::on_ws, a text message whose content is an error: on_packet returns
\* Error::Euph and recv ends with it
On_ErrorPacket ==
    /\ ws_open
    /\ ws_open' = FALSE
    /\ recv_result' = "Euph"
    /\ UNCHANGED << last_id, ticks, last_ws_ping_payload, last_ws_ping_replied_to,
                    last_euph_ping_payload, last_euph_ping_replied_to, ws_pongs,
                    euph_ping_replies, sent_rpl, notPing >>

\* Conn::on_ws, the stream ended (None), or on_data met a disconnect-event:
\* recv ends with ConnectionClosed
On_WsClosed ==
    /\ ws_open
    /\ ws_open' = FALSE
    /\ recv_result' = Disconnect
    /\ UNCHANGED << last_id, ticks, last_ws_ping_payload, last_ws_ping_replied_to,
                    last_euph_ping_payload, last_euph_ping_replied_to, ws_pongs,
                    euph_ping_replies, sent_rpl, notPing >>

\* Conn::recv, ConnEvent::Cmd with SendCmd: send_cmd takes the next id and
\* sends; a failed send ends recv
On_SendCmd(send_ok) ==
    /\ ws_open
    /\ last_id < ticks + MaxConnCmds
    /\ last_id' = last_id + 1
    /\ ws_open' = send_ok
    /\ recv_result' = IF send_ok THEN recv_result ELSE "Tungstenite"
    /\ UNCHANGED << ticks, last_ws_ping_payload, last_ws_ping_replied_to,
                    last_euph_ping_payload, last_euph_ping_replied_to, ws_pongs,
                    euph_ping_replies, sent_rpl, notPing >>

PingStep ==
    \/ \E ws_ok \in BOOLEAN, cmd_ok \in BOOLEAN : On_Ping(ws_ok, cmd_ok)
    \/ \E payload \in Payloads : On_Pong(payload)
    \/ \E time \in { None } \cup Payloads : On_PingReply(time)
    \/ \E id \in PacketIds, time \in EventTimes, send_ok \in BOOLEAN :
           On_PingEvent(id, time, send_ok)
    \/ On_ErrorPacket
    \/ On_WsClosed
    \/ \E send_ok \in BOOLEAN : On_SendCmd(send_ok)

(***************************************************************************)
(* Joined (client/state.rs): the roster of a joined connection.  One       *)
(* action per kind of packet that Joined::on_data looks at.  The listing   *)
(* HashMap is the set of its session infos; the key of an info is its      *)
(* session_id.                                                             *)
(***************************************************************************)
\* the session id of the client itself and those of the other sessions
OwnSessionId == "own"
OtherSessionIds == { "s1", "s2" }
SessionIds == OtherSessionIds \cup { OwnSessionId }

\* user ids; the server derives the user id of a session from its agent
UserIds == { "u0", "u1" }
UserOf(sid) == IF sid = OwnSessionId THEN "u0" ELSE "u1"

Names == { "a", "b" }
ServerIds == { "h1", "h2" }
ServerEras == { "e1", "e2" }

\* SessionView values of the sessions sids with names among names
SessionViews(sids, names) ==
    { [ session_id |-> sid, id |-> UserOf(sid), name |-> n, server_id |-> h,
        server_era |-> e ] :
        sid \in sids, n \in names, h \in ServerIds, e \in ServerEras }

\* NickEvent values (the field from is not looked at)
NickEvents ==
    { [ session_id |-> sid, id |-> UserOf(sid), to |-> n ] :
        sid \in OtherSessionIds, n \in Names }

\* NetworkEvent values
NetworkTypes == { "partition", "shutdown" }
NetworkEvents ==
    [ type : NetworkTypes, server_id : ServerIds, server_era : ServerEras ]

\* the listings a who-reply can carry: a session may be listed more than once;
\* the name "w" stands for a name only a who-reply tells, and the sessions
\* are listed in the era "e1"
WhoListings ==
    UNION { [ 1..n -> { v \in SessionViews(SessionIds, { "w" }) :
                          v.server_era = "e1" } ] : n \in 0..MaxWhoListing }

\* SessionInfo::Full and SessionInfo::Partial
Full(view) ==
    [ kind |-> "full", session_id |-> view.session_id, id |-> view.id,
      name |-> view.name, server_id |-> view.server_id,
      server_era |-> view.server_era ]

Partial(nick) ==
    [ kind |-> "partial", session_id |-> nick.session_id, id |-> nick.id,
      name |-> nick.to, server_id |-> "-", server_era |-> "-" ]

\* HashMap::insert with a plausible slip: the old value of the key stays
ListingInsert_KeepsOld(l, info) == l \cup { info }

\* HashMap::insert: the value of the key is replaced
ListingInsert(l, info) ==
    { x \in l : x.session_id # info.session_id } \cup { info }

\* HashMap::remove
ListingRemove(l, sid) == { x \in l : x.session_id # sid }

\* the closure given to retain for a partition: which infos are kept
PartitionKeeps(info, p) ==
    IF info.kind = "full"
    THEN info.server_id # p.server_id /\ info.server_era # p.server_era
    ELSE FALSE

\* entry(..).and_modify(..).or_insert_with(..) of a nick-event
NickModify(l, p) ==
    IF \E x \in l : x.session_id = p.session_id
    THEN { IF x.session_id # p.session_id THEN x
           ELSE IF x.kind = "full" THEN [ x EXCEPT !.name = p.to ]
           ELSE Partial(p) : x \in l }
    ELSE l \cup { Partial(p) }

\* the loop of a who-reply over its listing, from the cleared map: the result
\* is the pair of the own session view and the map
RECURSIVE WhoLoop(_, _, _)
WhoLoop(rest, own, l) ==
    IF rest = << >> THEN << own, l >>
    ELSE LET v == Head(rest)
         IN  IF v.session_id = own.session_id
             THEN WhoLoop(Tail(rest), v, l)
             ELSE WhoLoop(Tail(rest), own, ListingInsert(l, Full(v)))

\* the session ids a who-reply names
WhoNames(who) == { who[i].session_id : i \in DOMAIN who }

\* the state Joining::to_joined builds from the hello and the snapshot: the
\* snapshot's listing collected into the map
InitJoined ==
    /\ session \in SessionViews({ OwnSessionId }, Names)
    /\ listing \in { { Full(v) : v \in vs } :
                       vs \in { ws \in SUBSET SessionViews(OtherSessionIds, { "a" }) :
                                  \A x, y \in ws : x.session_id = y.session_id => x = y } }
    /\ joined_alive = TRUE
    /\ parted = {}
    /\ last_who = << >>

\* the room state while another part is explored
ParkedJoined ==
    /\ session = << >>
    /\ listing = {}
    /\ joined_alive = FALSE
    /\ parted = {}
    /\ last_who = << >>

Joined_JoinEvent(v) ==
    /\ joined_alive
    /\ listing' = ListingInsert(listing, Full(v))
    /\ parted' = parted \ { v.session_id }
    /\ UNCHANGED << session, joined_alive, notJoined >>
    /\ last_who' = << >>

Joined_PartEvent(v) ==
    /\ joined_alive
    /\ listing' = ListingRemove(listing, v.session_id)
    /\ parted' = parted \cup { v.session_id }
    /\ UNCHANGED << session, joined_alive, notJoined >>
    /\ last_who' = << >>

Joined_NetworkEvent(p) ==
    /\ joined_alive
    /\ listing' = IF p.type = "partition"
                  THEN { x \in listing : PartitionKeeps(x, p) }
                  ELSE listing
    /\ UNCHANGED << session, joined_alive, parted, notJoined >>
    /\ last_who' = << >>

Joined_SendEvent(sender) ==
    /\ joined_alive
    /\ listing' = ListingInsert(listing, Full(sender))
    /\ parted' = parted \ { sender.session_id }
    /\ UNCHANGED << session, joined_alive, notJoined >>
    /\ last_who' = << >>

Joined_NickEvent(p) ==
    /\ joined_alive
    /\ listing' = NickModify(listing, p)
    /\ parted' = parted \ { p.session_id }
    /\ UNCHANGED << session, joined_alive, notJoined >>
    /\ last_who' = << >>

\* the assert_eq! panics the task when the ids differ
Joined_NickReply(id, to) ==
    /\ joined_alive
    /\ IF session.id = id
       THEN /\ session' = [ session EXCEPT !.name = to ]
            /\ joined_alive' = TRUE
       ELSE /\ session' = session
            /\ joined_alive' = FALSE
    /\ UNCHANGED << listing, parted, notJoined >>
    /\ last_who' = << >>

\* the WhoReply arm with a plausible slip: the listing is not cleared
Joined_WhoReply_Merges(who) ==
    /\ joined_alive
    /\ LET r == WhoLoop(who, session, listing)
       IN  /\ session' = r[1]
           /\ listing' = r[2]
    /\ parted' = parted \ WhoNames(who)
    /\ UNCHANGED << joined_alive, notJoined >>
    /\ last_who' = << who >>

\* Joined::on_data, WhoReply
Joined_WhoReply(who) ==
    /\ joined_alive
    /\ LET r == WhoLoop(who, session, {})
       IN  /\ session' = r[1]
           /\ listing' = r[2]
    /\ parted' = parted \ WhoNames(who)
    /\ UNCHANGED << joined_alive, notJoined >>
    /\ last_who' = << who >>

JoinedStep ==
    \/ \E v \in SessionViews(OtherSessionIds, Names) : Joined_JoinEvent(v)
    \/ \E v \in SessionViews(OtherSessionIds, Names) : Joined_PartEvent(v)
    \/ \E p \in NetworkEvents : Joined_NetworkEvent(p)
    \/ \E v \in SessionViews(OtherSessionIds, Names) : Joined_SendEvent(v)
    \/ \E p \in NickEvents : Joined_NickEvent(p)
    \/ \E id \in UserIds, to \in Names : Joined_NickReply(id, to)
    \/ \E who \in WhoListings : Joined_WhoReply(who)

(***************************************************************************)
(* Commands (euphoxide-bot/src/command.rs): the dispatcher.  A command is  *)
(* named by the number of the add call that inserted it; what its execute  *)
(* returns is an input.  Each await of handle_message is one step.         *)
(***************************************************************************)
\* what Command::execute returns: Ok(Propagate::Yes), Ok(Propagate::No), Err
Propagations == { "Yes", "No", "Err" }

\* the events handle_event is given: a MultiClientEvent with, for a Packet, the
\* content of the packet and the variant of its state snapshot
DispatcherEvents ==
    [ kind : { "Packet" },
      content : { "SendEvent", "NickEvent", "PingEvent", "SendReply", "Err" },
      state : { "Joined", "Joining" } ]
    \cup [ kind : { "Connected", "Joined" }, content : { "-" },
           state : { "Joined", "Joining" } ]
    \cup [ kind : { "Started", "Connecting", "Disconnected", "Stopped" },
           content : { "-" }, state : { "-" } ]

\* Commands::new
InitCmds ==
    /\ commands = << >>
    /\ d_pc = "building"
    /\ d_event = [ kind |-> "-", content |-> "-", state |-> "-" ]
    /\ d_index = 0
    /\ d_executed = << >>
    /\ d_result = "none"

\* the dispatcher while another part is explored
ParkedCmds ==
    /\ commands = << >>
    /\ d_pc = "parked"
    /\ d_event = << >>
    /\ d_index = 0
    /\ d_executed = << >>
    /\ d_result = "none"

\* the let-else chain of handle_event with a plausible slip: the variant of the
\* state is not looked at
PassesToCommands_AnyState(event) ==
    event.kind = "Packet" /\ event.content = "SendEvent"

\* the let-else chain of handle_event: the event reaches handle_message
PassesToCommands(event) ==
    /\ event.kind = "Packet"
    /\ event.content = "SendEvent"
    /\ event.state = "Joined"

\* the loop of handle_message with a plausible slip: it runs from the back
CommandAt_Reversed(cmds, i) == cmds[Len(cmds) + 1 - i]

\* the loop of handle_message: for command in &self.commands
CommandAt(cmds, i) == cmds[i]

\* Commands::add and Commands::then: push
Commands_add ==
    /\ d_pc = "building"
    /\ Len(commands) < MaxCommands
    /\ commands' = Append(commands, Len(commands) + 1)
    /\ UNCHANGED << d_pc, d_event, d_index, d_executed, d_result, notCmds >>

\* Commands::build
Commands_build ==
    /\ d_pc = "building"
    /\ d_pc' = "idle"
    /\ UNCHANGED << commands, d_event, d_index, d_executed, d_result, notCmds >>

\* handle_event up to the first await of handle_message
HandleEvent(event) ==
    /\ d_pc \in { "idle", "returned" }
    /\ d_event' = event
    /\ d_executed' = << >>
    /\ IF PassesToCommands(event)
       THEN /\ d_pc' = "executing"
            /\ d_index' = 1
            /\ d_result' = "none"
       ELSE /\ d_pc' = "returned"
            /\ d_index' = 0
            /\ d_result' = "Yes"
    /\ UNCHANGED << commands, notCmds >>

\* handle_message: command.execute(..).await? returned propagate
HandleMessage_Execute(propagate) ==
    /\ d_pc = "executing"
    /\ d_index <= Len(commands)
    /\ d_executed' = Append(d_executed,
                            [ command |-> CommandAt(commands, d_index),
                              propagate |-> propagate ])
    /\ IF propagate = "Yes"
       THEN /\ d_index' = d_index + 1
            /\ UNCHANGED << d_pc, d_result >>
       ELSE /\ d_pc' = "returned"
            /\ d_result' = propagate
            /\ d_index' = d_index
    /\ UNCHANGED << commands, d_event, notCmds >>

\* handle_message: the loop is over, Ok(Propagate::Yes)
HandleMessage_Done ==
    /\ d_pc = "executing"
    /\ d_index > Len(commands)
    /\ d_pc' = "returned"
    /\ d_result' = "Yes"
    /\ UNCHANGED << commands, d_event, d_index, d_executed, notCmds >>

CmdsStep ==
    \/ Commands_add
    \/ Commands_build
    \/ \E event \in DispatcherEvents : HandleEvent(event)
    \/ \E propagate \in Propagations : HandleMessage_Execute(propagate)
    \/ HandleMessage_Done

(***************************************************************************)
(* Text functions of the command layer.  A string is the sequence of its   *)
(* characters.                                                             *)
(***************************************************************************)
\* char::is_whitespace, for the characters of the model
IsWhitespace(c) == c \in { " ", "\t" }

\* str::trim_start with a plausible slip: nothing is trimmed
TrimStart_Keeps(t) == t

\* str::trim_start
RECURSIVE TrimStart(_)
TrimStart(t) ==
    IF t # << >> /\ IsWhitespace(Head(t)) THEN TrimStart(Tail(t)) ELSE t

\* str::starts_with
StartsWith(t, p) == Len(t) >= Len(p) /\ SubSeq(t, 1, Len(p)) = p

\* the position of the first whitespace character of t (0: none), as
\* split_once(char::is_whitespace) finds it
FirstWhitespace(t) ==
    IF \E i \in DOMAIN t : IsWhitespace(t[i])
    THEN CHOOSE i \in DOMAIN t :
             IsWhitespace(t[i]) /\ \A j \in 1..(i - 1) : ~IsWhitespace(t[j])
    ELSE 0

\* Option::None and Some((name, rest))
NoParse == [ some |-> FALSE, name |-> << >>, rest |-> << >> ]
Parsed(name, rest) == [ some |-> TRUE, name |-> name, rest |-> rest ]

\* parse_prefix_initiated
ParsePrefixInitiated(text, prefix) ==
    LET t == TrimStart(text)
    IN  IF ~StartsWith(t, prefix) THEN NoParse
        ELSE LET u == SubSeq(t, Len(prefix) + 1, Len(t))
                 i == FirstWhitespace(u)
                 name == IF i = 0 THEN u ELSE SubSeq(u, 1, i - 1)
                 rest == IF i = 0 THEN << >> ELSE SubSeq(u, i + 1, Len(u))
             IN  IF name = << >> THEN NoParse ELSE Parsed(name, rest)

\* the strings of at most n characters of the set chars
Texts(chars, n) == UNION { [ 1..k -> chars ] : k \in 0..n }

\* the calls of parse_prefix_initiated explored
InitPrefix ==
    /\ call \in [ text : Texts({ " ", "\t", "!", "@", "a" }, MaxText),
                  prefix : { << "!" >>, << "@" >>, << "!", "!" >>, << >>,
                             << " ", "!" >> } ]
    /\ result = [ done |-> FALSE, value |-> NoParse ]

\* the pure functions while another part is explored
ParkedCall ==
    /\ call = << >>
    /\ result = << >>

\* one call of parse_prefix_initiated
ParsePrefixInitiated_Call ==
    /\ ~result.done
    /\ result' = [ done |-> TRUE,
                   value |-> ParsePrefixInitiated(call.text, call.prefix) ]
    /\ UNCHANGED << call, notCall >>

(***************************************************************************)
(* Nick normalisation (nick.rs) and the General and Specific command       *)
(* wrappers (command/bang.rs).                                             *)
(***************************************************************************)
\* is_non_whitespace_delimiter
IsNonWhitespaceDelimiter(c) ==
    c \in { ",", ".", "!", "?", ";", "&", "<", ">", "'", "\"" }

\* mention: whitespace is dropped everywhere, delimiters everywhere but in
\* the first remaining character
Mention(nick) ==
    LET NotWhitespace(c) == ~IsWhitespace(c)
        NotDelimiter(c) == ~IsNonWhitespaceDelimiter(c)
        chars == SelectSeq(nick, NotWhitespace)
    IN  IF chars = << >> THEN << >>
        ELSE << Head(chars) >> \o SelectSeq(Tail(chars), NotDelimiter)

\* NFKC of one character: the fullwidth letter becomes the plain one, the
\* other characters of the model are their own normal form
Nfkc(c) == IF c = "U+FF41" THEN "a" ELSE c

\* default case folding of one character
DefaultCaseFold(c) == IF c = "A" THEN "a" ELSE c

\* normalize
Normalize(nick) ==
    LET m == Mention(nick)
    IN  [ i \in DOMAIN m |-> DefaultCaseFold(Nfkc(m[i])) ]

\* General::execute: "Inner" when the inner command is executed, "Yes" when
\* the wrapper returns Propagate::Yes on its own
GeneralExecute(arg, prefix, name) ==
    LET p == ParsePrefixInitiated(arg, prefix)
    IN  IF ~p.some THEN "Yes"
        ELSE IF p.name # name THEN "Yes"
        ELSE IF ParsePrefixInitiated(p.rest, << "@" >>).some THEN "Yes"
        ELSE "Inner"

\* Specific::execute with a plausible slip: the nicks are compared as
\* written
SpecificExecute_Exact(arg, prefix, name, own) ==
    LET p == ParsePrefixInitiated(arg, prefix)
        q == ParsePrefixInitiated(p.rest, << "@" >>)
    IN  IF ~p.some THEN "Yes"
        ELSE IF p.name # name THEN "Yes"
        ELSE IF ~q.some THEN "Yes"
        ELSE IF q.name # own THEN "Yes"
        ELSE "Inner"

\* Specific::execute, own being ctx.joined.session.name
SpecificExecute(arg, prefix, name, own) ==
    LET p == ParsePrefixInitiated(arg, prefix)
        q == ParsePrefixInitiated(p.rest, << "@" >>)
    IN  IF ~p.some THEN "Yes"
        ELSE IF p.name # name THEN "Yes"
        ELSE IF ~q.some THEN "Yes"
        ELSE IF Normalize(q.name) # Normalize(own) THEN "Yes"
        ELSE "Inner"

\* the messages and display names the wrappers of the command "a" are
\* explored with
InitBang ==
    /\ call \in [ text : Texts({ " ", "!", "@", "a", "A" }, MaxText),
                  prefix : { << "!" >> },
                  name : { << "a" >> },
                  own : { << "a" >>, << "A", "," >>, << "U+FF41" >>,
                          << ",", "a" >> } ]
    /\ result = [ general |-> "pending", specific |-> "pending" ]

\* the message goes through a General wrapper
General_execute ==
    /\ result.general = "pending"
    /\ result' = [ result EXCEPT
           !.general = GeneralExecute(call.text, call.prefix, call.name) ]
    /\ UNCHANGED << call, notCall >>

\* the message goes through a Specific wrapper
Specific_execute ==
    /\ result.specific = "pending"
    /\ result' = [ result EXCEPT
           !.specific = SpecificExecute(call.text, call.prefix, call.name,
                                        call.own) ]
    /\ UNCHANGED << call, notCall >>

(***************************************************************************)
(* parse_quoted_args (command/clap.rs).                                    *)
(***************************************************************************)
\* the local variables of parse_quoted_args before the first character
ScanStart ==
    [ args |-> << >>, arg |-> << >>, arg_exists |-> FALSE,
      quoted |-> FALSE, escaped |-> FALSE ]

\* the body of the loop over the characters, for the character c
ScanChar(st, c) ==
    IF st.quoted
    THEN IF c = "\\" /\ st.escaped
             THEN [ st EXCEPT !.arg = Append(@, "\\"), !.escaped = FALSE ]
         ELSE IF c = "\"" /\ st.escaped
             THEN [ st EXCEPT !.arg = Append(@, "\""), !.escaped = FALSE ]
         ELSE IF st.escaped
             THEN [ st EXCEPT !.arg = Append(Append(@, "\\"), c),
                              !.escaped = FALSE ]
         ELSE IF c = "\\" THEN [ st EXCEPT !.escaped = TRUE ]
         ELSE IF c = "\"" THEN [ st EXCEPT !.quoted = FALSE ]
         ELSE [ st EXCEPT !.arg = Append(@, c) ]
    ELSE IF st.escaped
             THEN [ st EXCEPT !.arg = Append(@, c), !.arg_exists = TRUE,
                              !.escaped = FALSE ]
         ELSE IF IsWhitespace(c)
             THEN IF st.arg_exists
                  THEN [ st EXCEPT !.args = Append(@, st.arg),
                                   !.arg = << >>, !.arg_exists = FALSE ]
                  ELSE st
         ELSE IF c = "\\" THEN [ st EXCEPT !.escaped = TRUE ]
         ELSE IF c = "\"" THEN [ st EXCEPT !.quoted = TRUE,
                                          !.arg_exists = TRUE ]
         ELSE [ st EXCEPT !.arg = Append(@, c), !.arg_exists = TRUE ]

\* the loop over the characters of the text
RECURSIVE Scan(_, _)
Scan(st, text) ==
    IF text = << >> THEN st ELSE Scan(ScanChar(st, Head(text)), Tail(text))

\* Result<Vec<String>, &'static str>
ArgsOk(args) == [ ok |-> TRUE, args |-> args, err |-> "" ]
ArgsErr(err) == [ ok |-> FALSE, args |-> << >>, err |-> err ]

\* parse_quoted_args with a plausible slip: the last argument is kept only
\* when it is not empty
ParseQuotedArgs_DropsEmpty(text) ==
    LET st == Scan(ScanStart, text)
    IN  IF st.quoted THEN ArgsErr("Unclosed trailing quote")
        ELSE IF st.escaped THEN ArgsErr("Unfinished trailing escape")
        ELSE IF st.arg # << >> THEN ArgsOk(Append(st.args, st.arg))
        ELSE ArgsOk(st.args)

\* parse_quoted_args
ParseQuotedArgs(text) ==
    LET st == Scan(ScanStart, text)
    IN  IF st.quoted THEN ArgsErr("Unclosed trailing quote")
        ELSE IF st.escaped THEN ArgsErr("Unfinished trailing escape")
        ELSE IF st.arg_exists THEN ArgsOk(Append(st.args, st.arg))
        ELSE ArgsOk(st.args)

\* The pieces the explored texts are written with: a separating whitespace
\* character, a plain character, a character behind a backslash, and a
\* quoted run of characters; text is what is written, value what is meant.
Pieces ==
    { [ kind |-> "separator", text |-> << c >>, value |-> << >> ] :
          c \in { " ", "\t" } }
    \cup { [ kind |-> "plain", text |-> << "a" >>, value |-> << "a" >> ] }
    \cup { [ kind |-> "escaped", text |-> << "\\", c >>, value |-> << c >> ] :
               c \in { " ", "\\", "\"", "a" } }
    \cup { [ kind |-> "quoted", text |-> << "\"" >> \o s \o << "\"" >>,
             value |-> s ] : s \in { << >>, << "a", " " >> } }

\* what is written behind the pieces: nothing, a lone backslash, or a quote
\* that is never closed
Tails ==
    { << >>, << "\\" >>, << "\"" >>, << "\"", "a", " " >>, << "\"", "\\" >>,
      << "\"", "\\", "\"" >> }

\* the text written with a sequence of pieces
RECURSIVE Written(_)
Written(pieces) ==
    IF pieces = << >> THEN << >>
    ELSE Head(pieces).text \o Written(Tail(pieces))

\* the texts parse_quoted_args is explored with
InitQuoted ==
    /\ \E pieces \in UNION { [ 1..k -> Pieces ] : k \in 0..MaxPieces },
          tail \in Tails :
           call = [ pieces |-> pieces, tail |-> tail,
                    text |-> Written(pieces) \o tail ]
    /\ result = [ done |-> FALSE, value |-> ArgsOk(<< >>) ]

\* one call of parse_quoted_args
ParseQuotedArgs_Call ==
    /\ ~result.done
    /\ result' = [ done |-> TRUE, value |-> ParseQuotedArgs(call.text) ]
    /\ UNCHANGED << call, notCall >>

(***************************************************************************)
(* Joining (client/state.rs): the events of the join handshake.  An        *)
(* Option is the sequence of at most one value.  When the state becomes    *)
(* Joined, session and listing of the roster model are set; the events     *)
(* the Joining value held stay readable in joining.                        *)
(***************************************************************************)
\* the packets that arrive while joining: bounce-event, hello-event with
\* the own session, snapshot-event with an optional nick and a listing of
\* other sessions (a session may be listed more than once), and any other
\* packet
JoiningData ==
    { [ kind |-> k, session |-> << >>, nick |-> << >>, listing |-> << >> ] :
          k \in { "BounceEvent", "PingEvent" } }
    \cup { [ kind |-> "HelloEvent", session |-> << v >>, nick |-> << >>,
             listing |-> << >> ] :
               v \in SessionViews({ OwnSessionId }, Names) }
    \cup { [ kind |-> "SnapshotEvent", session |-> << >>, nick |-> n,
             listing |-> l ] :
               n \in { << >> } \cup { << x >> : x \in Names },
               l \in UNION { [ 1..k -> SessionViews(OtherSessionIds, { "a" }) ] :
                               k \in 0..MaxSnapshotListing } }

\* Joining::new
JoiningNew == [ hello |-> << >>, snapshot |-> << >>, bounce |-> << >> ]

\* Joining::on_data
JoiningOnData(j, data) ==
    IF data.kind = "BounceEvent" THEN [ j EXCEPT !.bounce = << data >> ]
    ELSE IF data.kind = "HelloEvent" THEN [ j EXCEPT !.hello = << data >> ]
    ELSE IF data.kind = "SnapshotEvent" THEN [ j EXCEPT !.snapshot = << data >> ]
    ELSE j

\* collect::<HashMap<_, _>>() over the pairs (session_id, Full(s)) of a
\* listing, in its order: a later entry replaces an earlier one of its key
RECURSIVE CollectListing(_, _)
CollectListing(rest, l) ==
    IF rest = << >> THEN l
    ELSE CollectListing(Tail(rest), ListingInsert(l, Full(Head(rest))))

\* Joining::to_joined with a plausible slip: the name of the hello's
\* session is kept
ToJoined_KeepsName(j) ==
    IF j.hello = << >> \/ j.snapshot = << >> THEN << >>
    ELSE LET hello == j.hello[1]
             snapshot == j.snapshot[1]
         IN  << [ session |-> hello.session[1],
                  listing |-> CollectListing(snapshot.listing, {}) ] >>

\* Joining::to_joined
ToJoined(j) ==
    IF j.hello = << >> \/ j.snapshot = << >> THEN << >>
    ELSE LET hello == j.hello[1]
             snapshot == j.snapshot[1]
             own == IF snapshot.nick # << >>
                    THEN [ hello.session[1] EXCEPT !.name = snapshot.nick[1] ]
                    ELSE hello.session[1]
         IN  << [ session |-> own,
                  listing |-> CollectListing(snapshot.listing, {}) ] >>

\* State::new
InitJoining ==
    /\ joining = JoiningNew
    /\ session = << >>
    /\ listing = {}
    /\ joined_alive = FALSE
    /\ parted = {}
    /\ last_who = << >>

\* the join handshake while another part is explored
ParkedJoining == joining = << >>

\* State::on_data in the Joining state
State_on_data(data) ==
    /\ ~joined_alive
    /\ joining' = JoiningOnData(joining, data)
    /\ LET joined == ToJoined(joining')
       IN  IF joined # << >>
           THEN /\ joined_alive' = TRUE
                /\ session' = joined[1].session
                /\ listing' = joined[1].listing
           ELSE UNCHANGED << joined_alive, session, listing >>
    /\ UNCHANGED << parted, last_who, clientVars, multiVars, connVars,
                    pingVars, cmdsVars, callVars, instVars, botVars,
                    handleVars >>

(***************************************************************************)
(* Instance (bot/instance.rs).  The task runs Instance::run: a select      *)
(* between stay_connected and the canary channel, then the Stopped event.  *)
(* An action is what the task does from one suspension to the next: the    *)
(* task is suspended in Conn::connect ("connecting"), in the select of     *)
(* run_once ("connected") or in the reconnect sleep ("sleeping"); it has   *)
(* not been polled yet in "spawned" and has returned in "stopped".         *)
(***************************************************************************)
\* Instance::new: the task is spawned, both channels are empty
InitInstance ==
    /\ inst_pc = "spawned"
    /\ inst_events = << >>
    /\ inst_requests = << >>
    /\ inst_dropped = FALSE
    /\ inst_packets = 0

\* no instance of its own: the state the other specifications leave alone
ParkedInst ==
    /\ inst_pc = "parked"
    /\ inst_events = << >>
    /\ inst_requests = << >>
    /\ inst_dropped = TRUE
    /\ inst_packets = 0

\* the number of Connecting events emitted
Connectings ==
    Cardinality({ i \in DOMAIN inst_events : inst_events[i] = "Connecting" })

\* stay_connected from the top of its loop to the await of Conn::connect
Instance_Connecting(evs) ==
    /\ Connectings < MaxConnectings
    /\ inst_events' = evs \o << "Connecting" >>
    /\ inst_pc' = "connecting"
    /\ inst_packets' = 0

\* the first poll of the task takes the stay_connected branch
Instance_FirstPoll ==
    /\ inst_pc = "spawned"
    /\ Instance_Connecting(inst_events)
    /\ UNCHANGED << inst_requests, inst_dropped, notInst >>

\* run_once: Conn::connect succeeded, Connected is emitted and the select
\* over receive and handle_requests is entered
Instance_ConnectOk ==
    /\ inst_pc = "connecting"
    /\ inst_events' = Append(inst_events, "Connected")
    /\ inst_pc' = "connected"
    /\ UNCHANGED << inst_requests, inst_dropped, inst_packets, notInst >>

\* run_once: Conn::connect failed; stay_connected emits Disconnected and
\* breaks on HTTP 404 (run then emits Stopped), else sleeps
Instance_ConnectErr(not_found) ==
    /\ inst_pc = "connecting"
    /\ IF not_found
       THEN /\ inst_events' = inst_events \o << "Disconnected", "Stopped" >>
            /\ inst_pc' = "stopped"
       ELSE /\ inst_events' = Append(inst_events, "Disconnected")
            /\ inst_pc' = "sleeping"
    /\ UNCHANGED << inst_requests, inst_dropped, inst_packets, notInst >>

\* the reconnect sleep is over: the loop starts again
Instance_SleepDone ==
    /\ inst_pc = "sleeping"
    /\ Instance_Connecting(inst_events)
    /\ UNCHANGED << inst_requests, inst_dropped, notInst >>

\* receive: Conn::recv returned a packet, Packet is emitted
Instance_Packet ==
    /\ inst_pc = "connected"
    /\ inst_packets < MaxInstancePackets
    /\ inst_packets' = inst_packets + 1
    /\ inst_events' = Append(inst_events, "Packet")
    /\ UNCHANGED << inst_pc, inst_requests, inst_dropped, notInst >>

\* receive: Conn::recv returned an error; stay_connected emits Disconnected
\* and, having been connected, starts the loop again without sleeping
Instance_RecvErr ==
    /\ inst_pc = "connected"
    /\ Instance_Connecting(Append(inst_events, "Disconnected"))
    /\ UNCHANGED << inst_requests, inst_dropped, notInst >>

\* handle_requests: a request is received; GetConnTx is answered, Stop ends
\* run_once with StoppedManually: Disconnected, break, Stopped
Instance_Request ==
    /\ inst_pc = "connected"
    /\ inst_requests # << >>
    /\ inst_requests' = Tail(inst_requests)
    /\ IF Head(inst_requests) = "Stop"
       THEN /\ inst_events' = inst_events \o << "Disconnected", "Stopped" >>
            /\ inst_pc' = "stopped"
       ELSE UNCHANGED << inst_events, inst_pc >>
    /\ UNCHANGED << inst_dropped, inst_packets, notInst >>

\* handle_requests: request_rx is closed and empty, run_once ends with
\* InstanceDropped: Disconnected, break, Stopped
Instance_RequestsClosed ==
    /\ inst_pc = "connected"
    /\ inst_requests = << >>
    /\ inst_dropped
    /\ inst_events' = inst_events \o << "Disconnected", "Stopped" >>
    /\ inst_pc' = "stopped"
    /\ UNCHANGED << inst_requests, inst_dropped, inst_packets, notInst >>

\* run: the canary branch of the select completes, the stay_connected
\* future is dropped where it is suspended, and Stopped is emitted
Instance_Canary ==
    /\ inst_pc \in { "spawned", "connecting", "connected", "sleeping" }
    /\ inst_dropped
    /\ inst_events' = Append(inst_events, "Stopped")
    /\ inst_pc' = "stopped"
    /\ UNCHANGED << inst_requests, inst_dropped, inst_packets, notInst >>

\* Instance::stop and Instance::conn_tx, called by an owner of the instance
\* while the task holds request_rx
Instance_send(request) ==
    /\ ~inst_dropped
    /\ Len(inst_requests) < MaxRequests
    /\ inst_pc # "stopped"
    /\ inst_requests' = Append(inst_requests, request)
    /\ UNCHANGED << inst_pc, inst_events, inst_dropped, inst_packets, notInst >>

\* the last clone of the Instance is dropped: request_tx and the canary
\* sender are gone
Instance_drop ==
    /\ ~inst_dropped
    /\ inst_dropped' = TRUE
    /\ UNCHANGED << inst_pc, inst_events, inst_requests, inst_packets, notInst >>

InstanceStep ==
    \/ Instance_FirstPoll
    \/ Instance_ConnectOk
    \/ \E not_found \in BOOLEAN : Instance_ConnectErr(not_found)
    \/ Instance_SleepDone
    \/ Instance_Packet
    \/ Instance_RecvErr
    \/ Instance_Request
    \/ Instance_RequestsClosed
    \/ Instance_Canary
    \/ \E request \in { "Stop", "GetConnTx" } : Instance_send(request)
    \/ Instance_drop

(***************************************************************************)
(* Bot: the instances it owns, its event channel and Bot::recv.            *)
(***************************************************************************)
InstanceIds == { "a", "b" }

\* Bot::new_with_config: no instance, an empty channel, recv not called
InitBot ==
    /\ bot_pc = "idle"
    /\ bot_instances = { }
    /\ bot_q = << >>
    /\ bot_result = << >>
    /\ bot_timed_out = FALSE
    /\ binst_state = [ i \in InstanceIds |-> "unborn" ]
    /\ binst_spawns = [ i \in InstanceIds |-> 0 ]
    /\ binst_sent = [ i \in InstanceIds |-> 0 ]

ParkedBot ==
    /\ bot_pc = "parked"
    /\ bot_instances = { }
    /\ bot_q = << >>
    /\ bot_result = << >>
    /\ bot_timed_out = FALSE
    /\ binst_state = << >>
    /\ binst_spawns = << >>
    /\ binst_sent = << >>

\* event_rx.sender_strong_count(): the sender of the Bot and one per instance
\* task that has not dropped its event_tx yet
SenderStrongCount(st) ==
    1 + Cardinality({ i \in DOMAIN st :
                        st[i] \in { "running", "returning", "stopped" } })

\* the loop condition of Bot::recv
OtherSendersExist(count) == count > 1

\* Instance::stopped: cmd_tx.is_closed(), true once the task has dropped cmd_rx
InstanceStopped(st, i) == st[i] \in { "stopped", "done" }

\* Bot::purge_instances: retain the instances that are not stopped
PurgeInstances(ids, st) == { i \in ids : ~InstanceStopped(st, i) }

\* Bot::add_instance, callable while no call of recv borrows the Bot: nothing
\* happens when the id is a key; else an instance task is spawned under it.
\* One task per id is followed: an id is used again once the last task under
\* it has dropped its sender
Bot_add_instance(i) ==
    /\ bot_pc = "idle"
    /\ binst_spawns[i] < MaxSpawns
    /\ i \notin bot_instances => binst_state[i] \in { "unborn", "done" }
    /\ IF i \in bot_instances
       THEN UNCHANGED << bot_instances, binst_state, binst_spawns, binst_sent >>
       ELSE /\ bot_instances' = bot_instances \cup { i }
            /\ binst_state' = [ binst_state EXCEPT ![i] = "running" ]
            /\ binst_spawns' = [ binst_spawns EXCEPT ![i] = @ + 1 ]
            /\ binst_sent' = [ binst_sent EXCEPT ![i] = 0 ]
    /\ UNCHANGED << bot_pc, bot_q, bot_result, bot_timed_out, notBot >>

\* an instance task sends an event: waits for room in the event channel
BotInstance_Send(i) ==
    /\ binst_state[i] = "running"
    /\ binst_sent[i] < MaxBotEvents
    /\ Len(bot_q) < BotEventBufsize
    /\ bot_q' = Append(bot_q, [ id |-> i, ev |-> "Packet" ])
    /\ binst_sent' = [ binst_sent EXCEPT ![i] = @ + 1 ]
    /\ UNCHANGED << bot_pc, bot_instances, bot_result, bot_timed_out,
                    binst_state, binst_spawns, notBot >>

\* InstanceTask::run after its loop: the Stopped event is sent; the task still
\* holds its sender and its command receiver
BotInstance_Stopped(i) ==
    /\ binst_state[i] = "running"
    /\ Len(bot_q) < BotEventBufsize
    /\ bot_q' = Append(bot_q, [ id |-> i, ev |-> "Stopped" ])
    /\ binst_state' = [ binst_state EXCEPT ![i] = "returning" ]
    /\ UNCHANGED << bot_pc, bot_instances, bot_result, bot_timed_out,
                    binst_spawns, binst_sent, notBot >>

\* InstanceTask::run returns and the task is dropped field by field: first
\* cmd_rx, so that Instance::stopped is true from here on while the sender of
\* the task still counts
BotInstance_Return(i) ==
    /\ binst_state[i] = "returning"
    /\ binst_state' = [ binst_state EXCEPT ![i] = "stopped" ]
    /\ UNCHANGED << bot_pc, bot_instances, bot_q, bot_result, bot_timed_out,
                    binst_spawns, binst_sent, notBot >>

\* the drop of the task goes on: event_tx, the sender of the task
BotInstance_DropSender(i) ==
    /\ binst_state[i] = "stopped"
    /\ binst_state' = [ binst_state EXCEPT ![i] = "done" ]
    /\ UNCHANGED << bot_pc, bot_instances, bot_q, bot_result, bot_timed_out,
                    binst_spawns, binst_sent, notBot >>

\* the consumer calls Bot::recv
Bot_recv ==
    /\ bot_pc = "idle"
    /\ bot_pc' = "check"
    /\ bot_timed_out' = FALSE
    /\ UNCHANGED << bot_instances, bot_q, bot_result, binst_state,
                    binst_spawns, binst_sent, notBot >>

\* the head of the while loop: with no sender but the own one recv returns
\* None, else it purges the instances and awaits the channel under the timeout
Bot_Check ==
    /\ bot_pc = "check"
    /\ IF OtherSendersExist(SenderStrongCount(binst_state))
       THEN /\ bot_instances' = PurgeInstances(bot_instances, binst_state)
            /\ bot_pc' = "wait"
            /\ bot_result' = bot_result
       ELSE /\ bot_instances' = bot_instances
            /\ bot_pc' = "idle"
            /\ bot_result' = << >>
    /\ UNCHANGED << bot_q, bot_timed_out, binst_state, binst_spawns,
                    binst_sent, notBot >>

\* event_rx.recv() gave an event within the timeout: the event of an instance
\* in the table is returned, any other is dropped and the loop goes on
Bot_RecvEvent ==
    /\ bot_pc = "wait"
    /\ bot_q # << >>
    /\ bot_q' = Tail(bot_q)
    /\ IF Head(bot_q).id \in bot_instances
       THEN /\ bot_pc' = "idle"
            /\ bot_result' = << Head(bot_q) >>
       ELSE /\ bot_pc' = "check"
            /\ bot_result' = bot_result
    /\ UNCHANGED << bot_instances, bot_timed_out, binst_state, binst_spawns,
                    binst_sent, notBot >>

\* config.event_timeout elapsed with no event: continue
Bot_Timeout ==
    /\ bot_pc = "wait"
    /\ bot_q = << >>
    /\ bot_pc' = "check"
    /\ bot_timed_out' = TRUE
    /\ UNCHANGED << bot_instances, bot_q, bot_result, binst_state,
                    binst_spawns, binst_sent, notBot >>

BotStep ==
    \/ \E i \in InstanceIds : Bot_add_instance(i)
    \/ \E i \in InstanceIds : BotInstance_Send(i)
    \/ \E i \in InstanceIds : BotInstance_Stopped(i)
    \/ \E i \in InstanceIds : BotInstance_Return(i)
    \/ \E i \in InstanceIds : BotInstance_DropSender(i)
    \/ Bot_recv
    \/ Bot_Check
    \/ Bot_RecvEvent
    \/ Bot_Timeout

(***************************************************************************)
(* The specifications.                                                     *)
(***************************************************************************)
\* one Client supervisor with its handles
Init == InitClient /\ ParkedMulti /\ ParkedConn /\ ParkedPing /\ ParkedJoined /\ ParkedCmds /\ ParkedCall /\ ParkedJoining /\ ParkedInst /\ ParkedBot /\ ParkedHandle

Next == ClientStep

Spec == Init /\ [][Next]_vars

\* one MultiClient with its children, its callers and the consumer of its sink
\* one Client supervisor in runs of unbounded length.  The task is scheduled:
\* each of its steps that stays possible is taken, the connect call returns
\* (with either outcome) and the sleep ends; select! polls its branches in
\* random order, so a command or a closed command channel that is ready again
\* and again while connected is taken.
InitL == InitClientUnbounded /\ ParkedMulti /\ ParkedConn /\ ParkedPing /\ ParkedJoined /\ ParkedCmds /\ ParkedCall /\ ParkedJoining /\ ParkedInst /\ ParkedBot /\ ParkedHandle

NextL == ClientStep

SpecLive ==
    /\ InitL /\ [][NextL]_vars
    /\ WF_vars(Run_Started)
    /\ WF_vars(RunOnce_Begin)
    /\ WF_vars(Connect_Ok \/ \E err \in ConnectErrors : Connect_Err(err))
    /\ WF_vars(Sleep_Done)
    /\ WF_vars(\E send_ok \in BOOLEAN : OnPacket_ConnSend(send_ok))
    /\ WF_vars(OnJoined_Emit)
    /\ WF_vars(Run_Stopped)
    /\ WF_vars(Run_Return)
    /\ WF_vars(Client_stop_Push)
    /\ WF_vars(Client_handle_Push)
    /\ SF_vars(Cmd_GetConn)
    /\ SF_vars(Cmd_Stop)
    /\ SF_vars(Cmd_NoReferences)

InitM == InitMulti /\ ParkedClient /\ ParkedConn /\ ParkedPing /\ ParkedJoined /\ ParkedCmds /\ ParkedCall /\ ParkedJoining /\ ParkedInst /\ ParkedBot

NextM == MultiStep

SpecMulti == InitM /\ [][NextM]_vars

\* the same, with the tasks scheduled: the aggregator takes every step of its
\* loop that stays possible, a child that has left its loop sends Stopped and
\* returns, and the consumer drains the sink.  What the callers and the
\* server do is left to them.
SpecMultiFair ==
    /\ SpecMulti
    /\ WF_vars(Agg_RecvEvent)
    /\ WF_vars(Agg_Forward)
    /\ WF_vars(Agg_GetClients)
    /\ WF_vars(Agg_AddClient)
    /\ WF_vars(Agg_CmdClosed)
    /\ WF_vars(Consumer_Recv)
    /\ \A i \in ChildIds : WF_vars(Child_Started(i))
    /\ \A i \in ChildIds : WF_vars(Child_Stopped(i))
    /\ \A i \in ChildIds : WF_vars(Child_Return(i))

\* one ClientConn with the futures of the commands submitted through its handles
InitC == InitConn /\ ParkedClient /\ ParkedMulti /\ ParkedPing /\ ParkedJoined /\ ParkedCmds /\ ParkedCall /\ ParkedJoining /\ ParkedInst /\ ParkedBot /\ ParkedHandle

NextC == ConnStep

SpecConn == InitC /\ [][NextC]_vars

\* the same, with the driver loop polled and the futures and timers running
SpecConnFair ==
    /\ SpecConn
    /\ WF_vars(Conn_recv)
    /\ SF_vars(Conn_OnCmd_Send)
    /\ SF_vars(Conn_OnCmd_GetState)
    /\ WF_vars(\E send_ok \in BOOLEAN : Conn_OnCmd(send_ok))
    /\ \A w \in Waiters : WF_vars(Future_Resolve(w))
    /\ \A w \in Waiters : WF_vars(Future_Timeout(w))

\* one Conn with its pings
InitP == InitPing /\ ParkedClient /\ ParkedMulti /\ ParkedConn /\ ParkedJoined /\ ParkedCmds /\ ParkedCall /\ ParkedJoining /\ ParkedInst /\ ParkedBot /\ ParkedHandle

NextP == PingStep

SpecPing == InitP /\ [][NextP]_vars

\* the room state of one joined connection under the packets of a server
InitJ == InitJoined /\ ParkedClient /\ ParkedMulti /\ ParkedConn /\ ParkedPing /\ ParkedCmds /\ ParkedCall /\ ParkedJoining /\ ParkedInst /\ ParkedBot /\ ParkedHandle

NextJ == JoinedStep

SpecJoined == InitJ /\ [][NextJ]_vars

\* one Commands dispatcher handling one event after the other
InitD == InitCmds /\ ParkedClient /\ ParkedMulti /\ ParkedConn /\ ParkedPing /\ ParkedJoined /\ ParkedCall /\ ParkedJoining /\ ParkedInst /\ ParkedBot /\ ParkedHandle

NextD == CmdsStep

SpecCmds == InitD /\ [][NextD]_vars

\* parse_prefix_initiated applied to one text and prefix
InitPP == InitPrefix /\ ParkedClient /\ ParkedMulti /\ ParkedConn /\ ParkedPing /\ ParkedJoined /\ ParkedCmds /\ ParkedJoining /\ ParkedInst /\ ParkedBot /\ ParkedHandle

NextPP == ParsePrefixInitiated_Call

SpecPrefix == InitPP /\ [][NextPP]_vars

\* one message handed to a General and to a Specific wrapper
InitB == InitBang /\ ParkedClient /\ ParkedMulti /\ ParkedConn /\ ParkedPing /\ ParkedJoined /\ ParkedCmds /\ ParkedJoining /\ ParkedInst /\ ParkedBot /\ ParkedHandle

NextB ==
    \/ General_execute
    \/ Specific_execute

SpecBang == InitB /\ [][NextB]_vars

\* parse_quoted_args applied to one text
InitQ == InitQuoted /\ ParkedClient /\ ParkedMulti /\ ParkedConn /\ ParkedPing /\ ParkedJoined /\ ParkedCmds /\ ParkedJoining /\ ParkedInst /\ ParkedBot /\ ParkedHandle

NextQ == ParseQuotedArgs_Call

SpecQuoted == InitQ /\ [][NextQ]_vars

\* the join handshake of one connection
InitH == InitJoining /\ ParkedClient /\ ParkedMulti /\ ParkedConn /\ ParkedPing /\ ParkedCmds /\ ParkedCall /\ ParkedInst /\ ParkedBot /\ ParkedHandle

NextH == \E data \in JoiningData : State_on_data(data)

SpecJoining == InitH /\ [][NextH]_vars

\* one callback-based Instance and its owners
InitI == InitInstance /\ ParkedClient /\ ParkedMulti /\ ParkedConn /\ ParkedPing /\ ParkedJoined /\ ParkedCmds /\ ParkedCall /\ ParkedJoining /\ ParkedBot /\ ParkedHandle

NextI == InstanceStep

SpecInstance == InitI /\ [][NextI]_vars

\* one Bot with its instances and the calls of recv; the timer of the timeout
\* fires and the task that called recv is scheduled
InitBt == InitBot /\ ParkedClient /\ ParkedMulti /\ ParkedConn /\ ParkedPing /\ ParkedJoined /\ ParkedCmds /\ ParkedCall /\ ParkedJoining /\ ParkedInst /\ ParkedHandle

NextBt == BotStep

SpecBot ==
    /\ InitBt
    /\ [][NextBt]_vars
    /\ WF_vars(Bot_Check)
    /\ WF_vars(Bot_RecvEvent)
    /\ WF_vars(Bot_Timeout)

(***************************************************************************)
(* Claims about the Client supervisor, checked under Spec.                 *)
(***************************************************************************)
\* the positions after i of the next Connecting or Stopped event
NextBracketEnds(i) ==
    { k \in (i + 1)..Len(events) : events[k] \in { "Connecting", "Stopped" } }

\* least element of a non-empty set of numbers
Least(S) == CHOOSE k \in S : \A m \in S : k <= m

\* C1: every Connecting event is followed by exactly one Disconnected event
\* before the next Connecting or the Stopped event, however the connect
\* attempt ended.
C1_ConnectingBracketed ==
    \A i \in DOMAIN events :
        (events[i] = "Connecting" /\ NextBracketEnds(i) # {})
            => Cardinality({ j \in (i + 1)..(Least(NextBracketEnds(i)) - 1) :
                                events[j] = "Disconnected" }) = 1

\* C2: Started is emitted exactly once, as the first event, and Stopped exactly
\* once, as the last event: the supervisor has ended if and only if the last
\* event is Stopped, and nothing is emitted after it.
C2_StartedFirstStoppedLast ==
    /\ (events # << >>) => events[1] = "Started"
    /\ \A i \in DOMAIN events : events[i] = "Started" => i = 1
    /\ \A i \in DOMAIN events : events[i] = "Stopped" => i = Len(events)
    /\ (pc \in { "returning", "done" })
           <=> (events # << >> /\ events[Len(events)] = "Stopped")
    /\ (pc # "start") => events # << >>

\* C2 witness: a supervisor that ended after at least one connection
C2_Witness ==
    /\ pc = "done"
    /\ Len(events) >= 5
    /\ events[Len(events)] = "Stopped"
    /\ \E i \in DOMAIN events : events[i] = "Connected"

\* C7: a reply that carries a server error string does not end the connection:
\* Conn::recv goes on receiving after it, and the supervisor that handled it is
\* still in the receive loop of the same connection.
C7_ErrorReplyKeepsConnection ==
    [][ /\ On_ErrorPacket => ws_open'
        /\ Recv_Packet("error_reply") => pc' = "connected"
      ]_vars

(***************************************************************************)
(* Claims about the MultiClient aggregator, checked under SpecMulti.       *)
(***************************************************************************)
RECURSIVE EventsOf(_, _)
\* the events of child i in a queue of events, in order
EventsOf(q, i) ==
    IF q = << >> THEN << >>
    ELSE IF Head(q).id = i THEN << Head(q).ev >> \o EventsOf(Tail(q), i)
    ELSE EventsOf(Tail(q), i)

\* the events of child i on their way to the sink: the one the aggregator
\* holds, then those in the event channel
InFlight(i) == EventsOf(<< agg_held >>, i) \o EventsOf(event_q, i)

\* C3: for every child, the events handed to the user sink are exactly the
\* events the child emitted, in order and with none missing: what was emitted
\* is what was delivered followed by what is still on its way.
C3_FanInExact ==
    \A i \in ChildIds : emitted[i] = delivered[i] \o InFlight(i)

\* C4: add_client calls for the same identity give one running client: two
\* clients returned for the same room that both still run are the same client.
C4_AddClientIdempotent ==
    \A i \in DOMAIN added : \A j \in DOMAIN added :
        (added[i] = added[j] /\ child_pc[i] # "done" /\ child_pc[j] # "done")
            => i = j

\* C5: the aggregator and a caller never wait on each other: the aggregator is
\* never blocked on the full sink while the task that drains the sink awaits
\* the aggregator's answer to get_clients / add_client.
C5_NoMutualWait ==
    ~ ( /\ agg_pc = "forward"
        /\ Len(out_q) = OutBufsize
        /\ caller_pc["consumer"] = "waiting" )

(***************************************************************************)
(* Claims about the termination and retry policy of ClientTask, checked    *)
(* under Spec.                                                             *)
(***************************************************************************)
\* no SnapshotEvent was received in this run
NoSnapshotYet == \A i \in DOMAIN events : events[i] # "Joined"

\* C11: when more than join_attempts connect attempts have ended and no
\* SnapshotEvent was received, the next round of run_once ends the supervisor
\* with OutOfJoinAttempts instead of starting a further connect attempt.
C11_OutOfJoinAttempts ==
    [][ (RunOnce_Begin /\ attempts > config.join_attempts /\ NoSnapshotYet)
            => (pc' = "stopping" /\ last_result' = "OutOfJoinAttempts") ]_vars

\* C12: a BounceEvent offering passcode while no password is configured ends
\* the supervisor with AuthRequired, an AuthReply without success ends it with
\* InvalidPassword; from there the only step of the supervisor is the Stopped
\* event, and no connect attempt follows.
C12_AuthFailureTerminates ==
    [][ /\ (Recv_Packet("bounce_passcode") /\ ~config.password)
             => (pc' = "stopping" /\ last_result' = "AuthRequired")
        /\ Recv_Packet("auth_fail")
             => (pc' = "stopping" /\ last_result' = "InvalidPassword")
        /\ (pc = "stopping" /\ pc' # pc)
             => (pc' = "returning" /\ events' = Emit(events, << "Stopped" >>))
        /\ pc \in { "returning", "done" }
             => (pc' \in { "returning", "done" } /\ events' = events)
      ]_vars

\* C12 witness: the supervisor ended with AuthRequired, Stopped being the event
\* after the bounce packet
C12_Witness ==
    /\ pc = "done"
    /\ last_result = "AuthRequired"
    /\ ~config.password
    /\ Len(events) >= 2
    /\ events[Len(events)] = "Stopped"
    /\ events[Len(events) - 1] = "Packet"

\* the results of run_once classified as non-fatal ("ok": the connection was
\* closed by the server)
NonFatalResults ==
    { "ConnectionTimeout", "Transport", "PingTimeout", "ReceivedUnexpectedPacket",
      "ConnectionClosed", "ok" }

\* C13: when a connect attempt ends with a non-fatal result the supervisor goes
\* back to its loop without a Stopped event, and its next round starts another
\* connect attempt.
C13_NonFatalRetries ==
    [][ /\ ( /\ pc \in { "sleeping" } \cup InConnection
             /\ pc' \notin { "sleeping" } \cup InConnection
             /\ last_result' \in NonFatalResults )
             => (pc' = "loop" /\ events'[Len(events')] # "Stopped")
        /\ (RunOnce_Begin /\ last_result \in NonFatalResults)
             => (pc' = "connecting" /\ events' = Emit(events, << "Connecting" >>))
      ]_vars

\* C13 witness: the second attempt ended with a ping timeout and the
\* supervisor is back in its loop
C13_Witness ==
    /\ pc = "loop"
    /\ last_result = "PingTimeout"
    /\ attempts >= 2
    /\ \A i \in DOMAIN events : events[i] # "Stopped"

(***************************************************************************)
(* Claims about stopping a Client, checked under SpecLive, and about       *)
(* Client::handle, checked under Spec.                                     *)
(***************************************************************************)
\* C14: once every Client handle is dropped the supervisor eventually ends,
\* Stopped being its last event.
C14_NoReferencesTerminates ==
    (cmd_senders = 0) ~> (pc = "done" /\ events = << "Stopped" >>)

\* C15: once stop() has put its Stop command into the command channel the
\* supervisor eventually ends with the Stopped event, and stopped() is true.
C15_StopTerminates ==
    (\E i \in DOMAIN cmd_queue : cmd_queue[i] = "Stop")
        ~> (Stopped /\ events = << "Stopped" >>)

\* C16: handle() returns a connection handle only to a caller that called it
\* while a connection was open; called while the client is not connected it
\* returns None.
C16_HandleNoneWhenNotConnected ==
    getconn = "some" => getconn_phase = "connected"

(***************************************************************************)
(* Claims about ClientConn and its reply correlation, checked under        *)
(* SpecConn and SpecConnFair.                                              *)
(***************************************************************************)
\* C6: a packet whose id is the id of an in-flight command resolves that
\* command's waiter with the packet and removes its entry from the pending map;
\* a waiter is resolved at most once and only by a packet with its own id, and
\* a packet whose id has no entry resolves nothing.
C6_ReplyMatching ==
    [][ /\ \A packet \in ServerPackets : Conn_RecvPacket(packet) =>
            /\ packet.id \notin DOMAIN cc_pending'
            /\ packet.id \in DOMAIN cc_pending =>
                  ( ~ReceiverGone(w_state, cc_pending[packet.id]) =>
                        w_slot'[cc_pending[packet.id]] = SlotPacket(packet) )
            /\ packet.id \notin DOMAIN cc_pending => w_slot' = w_slot
        /\ \A w \in Waiters :
              w_slot[w].kind = "packet" =>
                  (w_slot'[w] = w_slot[w] /\ w_slot[w].id = w_id[w])
      ]_vars

\* C6 witness: one command was resolved by the packet with its id and its entry
\* is gone, while another command is still in flight
C6_Witness ==
    \E w \in Waiters, v \in Waiters :
        /\ w_slot[w].kind = "packet"
        /\ w_slot[w].id = w_id[w]
        /\ w_id[w] \notin DOMAIN cc_pending
        /\ v # w
        /\ w_id[v] \in DOMAIN cc_pending

\* C8: while the connection stays open (the ClientConn lives and its
\* WebSocket is open), a command submitted through a handle whose reply never
\* arrives does not stay pending: unless its caller drops the future or the
\* write to the WebSocket fails, its future resolves, and it resolves to
\* CommandTimeout.
C8_CommandTimeout ==
    \A w \in Waiters :
        (w_state[w] \in { "queued", "awaiting" })
            ~> ( \/ ~cc_alive
                 \/ cc_ws # "open"
                 \/ w_state[w] = "dropped"
                 \/ w_slot[w].kind \in { "packet", "send_err" }
                 \/ /\ w_state[w] = "resolved"
                    /\ w_result[w] = "CommandTimeout" )

\* C9: once the connection is torn down no command is left waiting on an open
\* oneshot; a future whose oneshot was closed by the teardown resolves to
\* ConnectionClosed, and so does a send through a handle of the ended
\* connection.
C9_TeardownResolvesClosed ==
    /\ ~cc_alive =>
          \A w \in Waiters :
              w_state[w] \in { "queued", "awaiting" } => w_slot[w] # SlotOpen
    /\ \A w \in Waiters :
          (w_state[w] = "resolved" /\ w_slot[w] = SlotClosed)
              => w_result[w] = "ConnectionClosed"
    /\ \A w \in Waiters :
          (w_state[w] = "resolved" /\ w_slot[w] = SlotOpen /\ w_id[w] = 0)
              => (~cc_alive /\ w_result[w] = "ConnectionClosed")

(***************************************************************************)
(* Claims about the order and the ids of the commands of one ClientConn,   *)
(* checked under SpecConn.                                                 *)
(***************************************************************************)
\* the place of a correlation id among those written to the WebSocket (0: not
\* written)
WirePos(id) ==
    IF \E i \in DOMAIN cc_wire : cc_wire[i] = id
    THEN CHOOSE i \in DOMAIN cc_wire : cc_wire[i] = id
    ELSE 0

\* C17: of two commands submitted through handles of one connection, the one
\* submitted first is taken from the channel first; when both were written to
\* the WebSocket the one submitted first was written first and got the smaller
\* correlation id.
C17_SubmissionOrder ==
    \A i, j \in DOMAIN cc_submitted :
        i < j =>
            LET a == cc_submitted[i]
                b == cc_submitted[j]
            IN  /\ (\E k \in DOMAIN cc_rx : cc_rx[k] = SendCmd(a)) =>
                       /\ \E k \in DOMAIN cc_rx : cc_rx[k] = SendCmd(b)
                       /\ w_id[b] = 0
                /\ (w_id[a] # 0 /\ w_id[b] # 0) =>
                       /\ w_id[a] < w_id[b]
                       /\ 0 < WirePos(w_id[a])
                       /\ WirePos(w_id[a]) < WirePos(w_id[b])

\* two commands were queued in the order waiter 2, waiter 1 and both were written
C17_Witness ==
    /\ cc_submitted = << 2, 1 >>
    /\ w_id[2] # 0
    /\ w_id[1] # 0
    /\ Len(cc_wire) >= 2

\* C18 as claimed: the first command written to the WebSocket of a connection
\* carries correlation id 1, and the ids written are strictly increasing.
C18_FirstSuccessfulSendIsOne ==
    /\ cc_wire # << >> => cc_wire[1] = 1
    /\ \A i, j \in DOMAIN cc_wire : i < j => cc_wire[i] < cc_wire[j]

\* the SendCmd commands waiting in the channel
QueuedSendCmds == { k \in DOMAIN cc_rx : cc_rx[k].cmd = "SendCmd" }

\* C18: the counter of a connection counts the calls of send, failed ones
\* included, those made for the commands of handles and those made by the
\* owner; the ids written to the WebSocket are among 1 .. last_id and
\* strictly increasing, so the first one written is 1 when no send failed
\* before it and greater otherwise.
C18_IdsCountSendCalls ==
    /\ cc_alive =>
           cc_last_id = Len(cc_submitted) - Cardinality(QueuedSendCmds) + cc_direct
    /\ \A i \in DOMAIN cc_wire : cc_wire[i] \in i .. cc_last_id
    /\ \A i, j \in DOMAIN cc_wire : i < j => cc_wire[i] < cc_wire[j]
    /\ Len(cc_wire) = cc_last_id => \A i \in DOMAIN cc_wire : cc_wire[i] = i

\* the first send failed, the second succeeded: id 2 is the first one written
C18_Witness ==
    /\ cc_wire = << 2 >>
    /\ cc_last_id = 2

(***************************************************************************)
(* Claims about the pings of Conn, checked under SpecPing.                 *)
(***************************************************************************)
\* the most recently sent transport ping was not answered by a pong with its
\* payload since it was sent
WsPingUnacknowledged ==
    last_ws_ping_payload # None /\ last_ws_ping_payload \notin ws_pongs

\* the most recently sent protocol ping was not answered by a ping-reply with
\* its time since it was sent
EuphPingUnacknowledged ==
    last_euph_ping_payload # None /\ last_euph_ping_payload \notin euph_ping_replies

\* C10: at every ping tick at which the most recently sent transport ping or the
\* most recently sent protocol ping is unacknowledged, the connection closes
\* and recv returns PingTimeout.
C10_PingTimeoutOnUnackedPing ==
    [][ \A ws_ok \in BOOLEAN, cmd_ok \in BOOLEAN :
            (On_Ping(ws_ok, cmd_ok) /\ (WsPingUnacknowledged \/ EuphPingUnacknowledged))
                => (~ws_open' /\ recv_result' = "PingTimeout")
      ]_vars

\* C30: after every ping tick that sends a fresh transport ping and a fresh
\* protocol ping, both replied_to flags are false.
C30_FreshPingsResetFlags ==
    [][ \A ws_ok \in BOOLEAN, cmd_ok \in BOOLEAN :
            (/\ On_Ping(ws_ok, cmd_ok)
             /\ last_ws_ping_payload' = ticks + 1
             /\ last_euph_ping_payload' = ticks + 1)
                => (~last_ws_ping_replied_to' /\ ~last_euph_ping_replied_to')
      ]_vars

\* C31: last_ws_ping_replied_to becomes true only on a pong whose payload is
\* that of the last transport ping sent, last_euph_ping_replied_to only on a
\* ping-reply whose time is that of the last protocol ping sent; a pong or
\* ping-reply with another payload, or one that comes before any ping was
\* sent, changes neither flag.
C31_RepliedOnlyOnMatch ==
    [][ /\ (~last_ws_ping_replied_to /\ last_ws_ping_replied_to') =>
               \E payload \in Payloads :
                   /\ On_Pong(payload)
                   /\ last_ws_ping_payload # None
                   /\ payload = last_ws_ping_payload
        /\ (~last_euph_ping_replied_to /\ last_euph_ping_replied_to') =>
               \E time \in Payloads :
                   /\ On_PingReply(time)
                   /\ last_euph_ping_payload # None
                   /\ time = last_euph_ping_payload
        /\ \A payload \in Payloads :
               (On_Pong(payload)
                    /\ (last_ws_ping_payload = None \/ payload # last_ws_ping_payload))
                   => UNCHANGED << last_ws_ping_replied_to, last_euph_ping_replied_to >>
        /\ \A time \in { None } \cup Payloads :
               (On_PingReply(time)
                    /\ (last_euph_ping_payload = None \/ time # last_euph_ping_payload))
                   => UNCHANGED << last_ws_ping_replied_to, last_euph_ping_replied_to >>
      ]_vars

\* after the first tick a pong with a payload that was never sent and the
\* ping-reply with the time of the ping have arrived: only the protocol flag
\* is set
C31_Witness ==
    /\ ticks = 1
    /\ 2 \in ws_pongs
    /\ ~last_ws_ping_replied_to
    /\ last_euph_ping_payload = 1
    /\ last_euph_ping_replied_to

\* C32: for every inbound ping-event the connection sends exactly one
\* ping-reply, with the time of the event and the id of the event's packet
\* (none when the packet had none), takes no new id for it, and has sent it
\* when recv returns the packet.
C32_PingEventAnswered ==
    [][ \A id \in PacketIds, time \in EventTimes :
            On_PingEvent(id, time, TRUE) =>
                /\ Len(sent_rpl') = Len(sent_rpl) + 1
                /\ SubSeq(sent_rpl', 1, Len(sent_rpl)) = sent_rpl
                /\ sent_rpl'[Len(sent_rpl')].type = "ping-reply"
                /\ sent_rpl'[Len(sent_rpl')].time = << time >>
                /\ sent_rpl'[Len(sent_rpl')].id = id
                /\ last_id' = last_id
                /\ recv_result' = "packet"
      ]_vars

\* after a command took the id 1, a ping-event with the id p1 and the
\* time 7 was answered
C32_Witness ==
    /\ last_id = 1
    /\ Len(sent_rpl) = 1
    /\ sent_rpl[1].id = << "p1" >>
    /\ sent_rpl[1].time = << 7 >>
    /\ recv_result = "packet"

(***************************************************************************)
(* Claims about the roster of a joined connection, checked under           *)
(* SpecJoined.                                                             *)
(***************************************************************************)
\* C19: a partition notice for (server_id, server_era) removes from the roster
\* the partial entries and exactly those full entries whose server_id and
\* server_era both equal the notice's; every other full entry stays, and no
\* entry is added.
C19_PartitionRemovesMatching ==
    [][ \A p \in NetworkEvents :
          (p.type = "partition" /\ Joined_NetworkEvent(p)) =>
              /\ listing' \subseteq listing
              /\ \A x \in listing :
                     x \in listing' <=>
                         /\ x.kind = "full"
                         /\ ~(x.server_id = p.server_id
                              /\ x.server_era = p.server_era) ]_vars

\* C20: the roster never holds two entries of one session id, and holds no
\* entry of a session id that a part-event named with no later join, send,
\* nick or who-reply packet naming it.
C20_RosterUniqueAndParted ==
    /\ \A x, y \in listing : x.session_id = y.session_id => x = y
    /\ \A sid \in parted : \A x \in listing : x.session_id # sid

\* s1 has parted and is still away while s2 is in the roster with a full entry
\* under a name no snapshot or who-reply of the model gave it
C20_Witness ==
    /\ "s1" \in parted
    /\ \E x \in listing :
           x.session_id = "s2" /\ x.kind = "full" /\ x.name = "b"

\* C36 (last_who' holds a listing exactly in the steps that apply a
\* who-reply): a who-reply that lists no session twice makes the roster exactly the
\* reply's listing, as full entries, without the entry of the client's own
\* session id; that entry, when the reply has one, becomes the client's
\* session view, which else stays; afterwards the own session id is no key
\* of the roster.
C36_WhoReplyReplacesRoster ==
    [][ ( /\ last_who' # << >>
          /\ \A i, j \in DOMAIN last_who'[1] :
                 last_who'[1][i].session_id = last_who'[1][j].session_id => i = j )
        => LET who == last_who'[1]
           IN  /\ listing' = { Full(who[i]) :
                                  i \in { k \in DOMAIN who :
                                            who[k].session_id # session.session_id } }
               /\ \A i \in DOMAIN who :
                      who[i].session_id = session.session_id => session' = who[i]
               /\ (\A i \in DOMAIN who : who[i].session_id # session.session_id)
                      => session' = session
               /\ \A x \in listing' : x.session_id # session'.session_id
      ]_vars

\* a who-reply that names the client and s2 was applied: the session view
\* carries the name only a who-reply tells, s2 is the whole roster
C36_Witness ==
    /\ joined_alive
    /\ last_who # << >>
    /\ Len(last_who[1]) = 2
    /\ session.name = "w"
    /\ Cardinality(listing) = 1
    /\ \E x \in listing : x.session_id = "s2" /\ x.kind = "full" /\ x.name = "w"

(***************************************************************************)
(* Claims about the Commands dispatcher, checked under SpecCmds.           *)
(***************************************************************************)
\* C21: the commands executed for a message are the first ones in insertion
\* order, each executed once; every command before the last executed one
\* returned Yes; once a command returned No the dispatcher has returned No, and
\* when the dispatcher returns Yes for a message every command was executed and
\* returned Yes.
C21_InsertionOrderUntilNo ==
    /\ Len(d_executed) <= Len(commands)
    /\ \A i \in DOMAIN d_executed :
           /\ d_executed[i].command = i
           /\ i < Len(d_executed) => d_executed[i].propagate = "Yes"
    /\ (d_executed # << >> /\ d_executed[Len(d_executed)].propagate = "No") =>
           d_pc = "returned" /\ d_result = "No"
    /\ (d_pc = "returned" /\ PassesToCommands(d_event) /\ d_result = "Yes") =>
           /\ Len(d_executed) = Len(commands)
           /\ \A i \in DOMAIN d_executed : d_executed[i].propagate = "Yes"
    /\ (d_pc = "returned" /\ PassesToCommands(d_event) /\ d_result = "No") =>
           /\ d_executed # << >>
           /\ d_executed[Len(d_executed)].propagate = "No"

\* the second of three commands returned No and the dispatcher returned No
C21_Witness ==
    /\ Len(commands) = MaxCommands
    /\ d_pc = "returned"
    /\ d_result = "No"
    /\ Len(d_executed) = 2
    /\ d_executed[1].propagate = "Yes"

\* C22: commands are executed only for a Packet event whose content is a
\* SendEvent and whose state is Joined; for every other event handle_event has
\* returned Yes with no command executed.
C22_OnlySendEventWhenJoined ==
    /\ d_executed # << >> =>
           /\ d_event.kind = "Packet"
           /\ d_event.content = "SendEvent"
           /\ d_event.state = "Joined"
    /\ (d_pc \in { "executing", "returned" }
        /\ ~(d_event.kind = "Packet" /\ d_event.content = "SendEvent"
             /\ d_event.state = "Joined")) =>
           d_pc = "returned" /\ d_result = "Yes" /\ d_executed = << >>

\* a send-event packet with a Joining state was handed in with commands added
C22_Witness ==
    /\ commands # << >>
    /\ d_pc = "returned"
    /\ d_event.kind = "Packet"
    /\ d_event.content = "SendEvent"
    /\ d_event.state = "Joining"

(***************************************************************************)
(* Claims about the state snapshots in the events of a Client, checked     *)
(* under SpecLive, where a connection receives any number of packets.      *)
(***************************************************************************)
\* C23: every Joined event is the first Joined event of its connection and
\* the state it carries is a Joined state.
C23_JoinedOncePerConnection ==
    [][ OnJoined_Emit => /\ event_state'.variant = "Joined"
                         /\ joined_events' = 1 ]_vars

\* C24: recv applies each packet to the state before it returns it, so the
\* state after a packet, and the snapshot in the events published for it, is
\* the state before it with that packet applied; a connection starts from the
\* new state and nothing else changes the state.
C24_StateIncludesPacket ==
    [][ /\ \A kind \in PacketKinds :
               Recv_Packet(kind) =>
                   /\ conn_state' = StateOnPacket(conn_state, kind)
                   /\ event_state' = conn_state'
        /\ Connect_Ok => (conn_state' = StateNew /\ event_state' = StateNew)
        /\ OnJoined_Emit => (conn_state' = conn_state /\ event_state' = conn_state)
        /\ (~Connect_Ok /\ ~OnJoined_Emit
            /\ ~\E kind \in PacketKinds : Recv_Packet(kind)) =>
               UNCHANGED << conn_state, event_state >> ]_vars

\* the Packet event of a message received after the join carries a Joined state
\* whose roster lists the sender
C24_Witness ==
    /\ pc = "connected"
    /\ events = << "Packet" >>
    /\ event_state.variant = "Joined"
    /\ event_state.listed
    /\ conn_state = event_state

(***************************************************************************)
(* Claims about the text functions of the command layer.                   *)
(***************************************************************************)
\* the number of whitespace characters t begins with
LeadingWhitespace(t) ==
    CHOOSE k \in 0..Len(t) :
        /\ \A i \in 1..k : IsWhitespace(t[i])
        /\ k < Len(t) => ~IsWhitespace(t[k + 1])

\* the number of non-whitespace characters t begins with
LeadingWord(t) ==
    CHOOSE n \in 0..Len(t) :
        /\ \A i \in 1..n : ~IsWhitespace(t[i])
        /\ n < Len(t) => IsWhitespace(t[n + 1])

\* C27: with t the text behind its leading whitespace, parse_prefix_initiated
\* returns none exactly when t does not begin with the prefix or no
\* non-whitespace character follows the prefix directly; otherwise the name is
\* the run of non-whitespace characters behind the prefix and the rest is what
\* follows the one whitespace character behind the name (empty if the text
\* ends with the name).
C27_ParsePrefixInitiated ==
    result.done =>
        LET k == LeadingWhitespace(call.text)
            t == SubSeq(call.text, k + 1, Len(call.text))
            p == Len(call.prefix)
            u == SubSeq(t, p + 1, Len(t))
            n == LeadingWord(u)
        IN  IF Len(t) < p \/ SubSeq(t, 1, p) # call.prefix \/ n = 0
            THEN ~result.value.some
            ELSE /\ result.value.some
                 /\ result.value.name = SubSeq(u, 1, n)
                 /\ result.value.rest = SubSeq(u, n + 2, Len(u))

\* a text with leading whitespace, a name and a rest that begins with whitespace
\* was parsed
C27_Witness ==
    /\ result.done
    /\ result.value.some
    /\ IsWhitespace(call.text[1])
    /\ result.value.rest # << >>
    /\ IsWhitespace(result.value.rest[1])

\* the text behind the command word of a message that invokes the command
\* name with the prefix "!": the word, and one whitespace character behind
\* it, are cut off
InvocationRest(text) ==
    LET k == LeadingWhitespace(text)
        t == SubSeq(text, k + 1, Len(text))
        n == LeadingWord(t)
    IN  SubSeq(t, n + 2, Len(t))

\* the message invokes the command name with the prefix "!"
IsInvocation(text, name) ==
    LET k == LeadingWhitespace(text)
        t == SubSeq(text, k + 1, Len(text))
        n == LeadingWord(t)
    IN  n >= 2 /\ t[1] = "!" /\ SubSeq(t, 2, n) = name

\* the nick x of the mention "@x" the text begins with, leading whitespace
\* aside; empty when the text does not begin with a mention
MentionedNick(text) ==
    LET k == LeadingWhitespace(text)
        r == SubSeq(text, k + 1, Len(text))
        n == LeadingWord(r)
    IN  IF n >= 2 /\ r[1] = "@" THEN SubSeq(r, 2, n) ELSE << >>

\* C25: for a message "!name @x rest" the General wrapper does not execute
\* its inner command and the Specific wrapper executes it exactly when
\* normalize(x) = normalize(own display name); for a message "!name rest"
\* whose rest does not begin with a mention the General wrapper executes it
\* and the Specific wrapper does not.
C25_GeneralAndSpecific ==
    IsInvocation(call.text, call.name) =>
        LET x == MentionedNick(InvocationRest(call.text))
        IN  /\ result.general # "pending" =>
                   (result.general = "Inner" <=> x = << >>)
            /\ result.specific # "pending" =>
                   (result.specific = "Inner" <=>
                        (x # << >> /\ Normalize(x) = Normalize(call.own)))

\* "!a @a" was handled for a bot displayed as "A,": the Specific wrapper
\* executed its command and the General one did not
C25_Witness ==
    /\ IsInvocation(call.text, call.name)
    /\ MentionedNick(InvocationRest(call.text)) = << "a" >>
    /\ call.own = << "A", "," >>
    /\ result.general = "Yes"
    /\ result.specific = "Inner"

\* "!a" was handled: the General wrapper executed its command and the
\* Specific one did not
C25_WitnessNoMention ==
    /\ IsInvocation(call.text, call.name)
    /\ MentionedNick(InvocationRest(call.text)) = << >>
    /\ result.general = "Inner"
    /\ result.specific = "Yes"

\* the arguments a sequence of pieces means: every maximal run of pieces
\* between separators is one argument, the concatenation of what its pieces
\* mean; cur is the argument being read, open whether there is one
RECURSIVE MeantArgs(_, _, _)
MeantArgs(pieces, cur, open) ==
    IF pieces = << >> THEN (IF open THEN << cur >> ELSE << >>)
    ELSE IF Head(pieces).kind = "separator"
         THEN (IF open THEN << cur >> ELSE << >>)
              \o MeantArgs(Tail(pieces), << >>, FALSE)
         ELSE MeantArgs(Tail(pieces), cur \o Head(pieces).value, TRUE)

\* C28: parse_quoted_args splits at whitespace that is neither quoted nor
\* escaped, a backslash outside quotes makes the next character part of the
\* argument, double quotes group their content into the argument (an empty
\* pair gives an empty argument); a text that ends inside an open quote is
\* rejected with "Unclosed trailing quote", one that ends right behind an
\* unquoted backslash with "Unfinished trailing escape".
C28_ParseQuotedArgs ==
    result.done =>
        IF call.tail = << >>
        THEN result.value = ArgsOk(MeantArgs(call.pieces, << >>, FALSE))
        ELSE IF call.tail = << "\\" >>
        THEN result.value = ArgsErr("Unfinished trailing escape")
        ELSE result.value = ArgsErr("Unclosed trailing quote")

\* a text with an escaped space, a quoted run and an empty quoted argument
\* was parsed into two arguments, the second one empty
C28_Witness ==
    /\ result.done
    /\ call.tail = << >>
    /\ \E i, j \in DOMAIN call.pieces :
           /\ call.pieces[i].kind = "escaped"
           /\ call.pieces[i].value = << " " >>
           /\ call.pieces[j].kind = "quoted"
           /\ call.pieces[j].value # << >>
    /\ Len(result.value.args) = 2
    /\ result.value.args[2] = << >>

\* a text that ends inside an open quote was rejected
C28_WitnessUnclosed ==
    /\ result.done
    /\ call.pieces # << >>
    /\ call.tail = << "\"", "a", " " >>
    /\ result.value.err = "Unclosed trailing quote"

(***************************************************************************)
(* Claims about the join handshake, checked under SpecJoining.             *)
(***************************************************************************)
\* the entry at i is the last one the listing l has for its session id
LastOfSession(l, i) ==
    \A k \in DOMAIN l : k > i => l[k].session_id # l[i].session_id

\* C29: the state is Joined exactly from the step on in which a hello-event
\* and a snapshot-event have both been seen, in either order; the session
\* of the Joined state is the hello's, with the name replaced by the
\* snapshot's nick when it has one, and the roster holds the snapshot's
\* listing as full entries: one entry for every session the listing names
\* and no other, each the full entry of what the listing says of that
\* session (of what it says last, should it name the session twice).
C29_JoinedWhenBothSeen ==
    /\ joined_alive <=> (joining.hello # << >> /\ joining.snapshot # << >>)
    /\ joined_alive =>
           LET hello == joining.hello[1].session[1]
               snapshot == joining.snapshot[1]
           IN  /\ session.session_id = hello.session_id
               /\ session.id = hello.id
               /\ session.server_id = hello.server_id
               /\ session.server_era = hello.server_era
               /\ session.name = IF snapshot.nick = << >> THEN hello.name
                                 ELSE snapshot.nick[1]
               /\ \A i \in DOMAIN snapshot.listing :
                      LastOfSession(snapshot.listing, i)
                          => Full(snapshot.listing[i]) \in listing
               /\ \A x \in listing :
                      /\ x.kind = "full"
                      /\ \E i \in DOMAIN snapshot.listing :
                             /\ LastOfSession(snapshot.listing, i)
                             /\ x = Full(snapshot.listing[i])
               /\ \A x, y \in listing : x.session_id = y.session_id => x = y

\* a bounce, a hello and a snapshot have been seen, the snapshot carried a
\* nick other than the hello's name and listed two sessions, and the state
\* is Joined
C29_Witness ==
    /\ joined_alive
    /\ joining.bounce # << >>
    /\ joining.snapshot[1].nick # << >>
    /\ joining.snapshot[1].nick[1] # joining.hello[1].session[1].name
    /\ session.name = joining.snapshot[1].nick[1]
    /\ Cardinality(listing) = 2

(***************************************************************************)
(* Claims about the callback-based Instance, checked under SpecInstance.   *)
(***************************************************************************)
\* where the schema (Connecting (Connected Packet*)? Disconnected)* Stopped
\* stands after the events evs, read from the position at: "idle" between
\* two rounds, "connecting" behind Connecting, "connected" behind Connected,
\* "stopped" behind Stopped, "off" once an event does not fit
RECURSIVE SchemaAfter(_, _)
SchemaAfter(evs, at) ==
    IF evs = << >> THEN at
    ELSE LET e == Head(evs)
             next == IF at = "idle" /\ e = "Connecting" THEN "connecting"
                     ELSE IF at = "idle" /\ e = "Stopped" THEN "stopped"
                     ELSE IF at = "connecting" /\ e = "Connected" THEN "connected"
                     ELSE IF at = "connecting" /\ e = "Disconnected" THEN "idle"
                     ELSE IF at = "connected" /\ e = "Packet" THEN "connected"
                     ELSE IF at = "connected" /\ e = "Disconnected" THEN "idle"
                     ELSE "off"
         IN  SchemaAfter(Tail(evs), next)

\* C26: the events of an Instance follow the schema
\* (Connecting (Connected Packet*)? Disconnected)* Stopped at every moment:
\* every Connecting is followed by its Disconnected before anything else
\* than Connected and Packet, and Stopped comes once, last, behind a
\* Disconnected or at the very start.
C26_InstanceEventSchema ==
    /\ SchemaAfter(inst_events, "idle") # "off"
    /\ inst_pc = "stopped" => SchemaAfter(inst_events, "idle") = "stopped"

(***************************************************************************)
(* Claims about the attempt counter, the reconnect delay and the nick of   *)
(* ClientTask, checked under Spec.                                         *)
(***************************************************************************)
\* C33: attempts grows by one before each connect attempt and is zero right
\* after a snapshot-event has been handled.
C33_AttemptsCountSinceSnapshot ==
    [][ /\ RunOnce_Begin => attempts' = attempts + 1
        /\ OnJoined_Emit => attempts' = 0
      ]_vars

\* C34 as stated: a connect attempt that ends non-fatally has slept for
\* reconnect_delay exactly when no snapshot-event was received in it.
C34_SleepIffNoSnapshot ==
    [][ ( /\ pc \in { "sleeping" } \cup InConnection
          /\ pc' = "loop"
          /\ last_result' \in NonFatalResults )
            => (pc = "sleeping" <=> ~(pc \in InConnection /\ conn_state'.snapshot))
      ]_vars

\* C34: a connect attempt in which connect() fails goes into the sleep of
\* reconnect_delay, and only the end of that sleep leads on to the next
\* attempt; a connection that was established and ends non-fatally leads on
\* to the next attempt at once, with or without a snapshot-event, and the
\* next attempt then starts with Connecting.
C34_SleepIffConnectFailed ==
    [][ /\ \A err \in ConnectErrors :
               Connect_Err(err) => (pc' = "sleeping" /\ events' = events)
        /\ (pc = "connecting" /\ pc' # "connecting")
               => pc' \in { "sleeping", "connected" }
        /\ (pc = "sleeping" /\ pc' # "sleeping") => Sleep_Done
        /\ (pc \in InConnection /\ pc' \notin InConnection
                /\ last_result' \in NonFatalResults) => pc' = "loop"
        /\ (RunOnce_Begin /\ last_result \in NonFatalResults)
               => events' = Emit(events, << "Connecting" >>)
      ]_vars

\* the first connection was established and ended, non-fatally, before a
\* snapshot-event came: the supervisor is back in its loop without having
\* slept
C34_Witness ==
    /\ pc = "loop"
    /\ attempts = 1
    /\ \E i \in DOMAIN events : events[i] = "Connected"
    /\ ~conn_state.snapshot
    /\ last_result \in NonFatalResults

\* C35: handling a snapshot-event sends exactly one Nick command when a
\* username is configured and the snapshot carries no nick or force_username
\* is set; handling any other packet, or a snapshot-event in any other case,
\* sends no Nick command.
C35_NickOnSnapshot ==
    [][ /\ \A kind \in PacketKinds :
               Recv_Packet(kind) =>
                   LET wanted ==
                           /\ kind \in { "snapshot_nonick", "snapshot_nick" }
                           /\ config.username
                           /\ (kind = "snapshot_nonick" \/ config.force_username)
                   IN  /\ conn_sent' = << >>
                       /\ (pc' = "send_nick") <=> wanted
        /\ (pc = "send_nick" /\ OnPacket_ConnSend(TRUE))
               => conn_sent' = << "Nick" >>
        /\ (conn_sent' # conn_sent /\ conn_sent' # << >>)
               => (conn_sent' = << "Nick" >> <=> pc = "send_nick")
      ]_vars

\* a snapshot-event was handled for a configuration with a username and
\* force_username, and one Nick command was sent
C35_Witness ==
    /\ pc = "connected"
    /\ config.username
    /\ config.force_username
    /\ conn_state.snapshot
    /\ conn_sent = << "Nick" >>

(***************************************************************************)
(* Claims about dropped futures of a ClientConn, checked under SpecConn.   *)
(***************************************************************************)
\* C37: after every purge of the driver loop (at the start of a call of recv
\* and after every command handled within one) no entry of the pending map
\* belongs to a dropped future; a packet with the id of a dropped future's
\* command, whether its entry is still in the map or not, changes no
\* oneshot, no waiter and no result, and the connection stays alive.
C37_DroppedFutureIsReaped ==
    [][ /\ ( \/ Conn_recv
             \/ \E send_ok \in BOOLEAN : Conn_OnCmd(send_ok)
             \/ Conn_OnCmd_GetState )
            => \A id \in DOMAIN cc_pending' :
                   w_state'[cc_pending'[id]] # "dropped"
        /\ \A packet \in ServerPackets :
               ( /\ Conn_RecvPacket(packet)
                 /\ \E w \in Waiters :
                        w_state[w] = "dropped" /\ w_id[w] = packet.id )
               => ( /\ cc_alive'
                    /\ w_slot' = w_slot
                    /\ w_state' = w_state
                    /\ w_result' = w_result
                    /\ packet.id \notin DOMAIN cc_pending' )
      ]_vars

\* the future of the command with id 1 was dropped and its entry is reaped,
\* while the connection lives and the command with id 2 still waits for its
\* reply
C37_Witness ==
    /\ cc_alive
    /\ \E w, v \in Waiters :
           /\ w_state[w] = "dropped"
           /\ w_id[w] = 1
           /\ 1 \notin DOMAIN cc_pending
           /\ w_state[v] = "awaiting"
           /\ w_id[v] = 2
           /\ 2 \in DOMAIN cc_pending
           /\ w_slot[v] = SlotOpen

(***************************************************************************)
(* The end of the event stream of a Bot, under SpecBot.                    *)
(***************************************************************************)
\* every instance task has ended: only the sender of the Bot remains
AllInstancesDead == SenderStrongCount(binst_state) = 1

\* Bot::recv keeps the polling window: a call of recv that waits on the empty
\* channel while every instance is dead returns None, and no call of recv
\* made or running while every instance is dead waits forever.
Bot_recv_StreamEnds ==
    /\ (AllInstancesDead /\ bot_pc = "wait" /\ bot_q = << >>)
           ~> (bot_pc = "idle" /\ bot_result = << >>)
    /\ (AllInstancesDead /\ bot_pc \in { "check", "wait" })
           ~> (bot_pc = "idle")

(***************************************************************************)
(* Claims about the end of the aggregated event stream of a MultiClient,   *)
(* checked under SpecMultiFair.                                            *)
(***************************************************************************)
\* every child the aggregator ever spawned has ended, and one has: no sender
\* of the event channel remains but the one the aggregator task holds
AllChildrenDead ==
    /\ \E i \in ChildIds : child_pc[i] = "done"
    /\ \A i \in ChildIds : child_pc[i] \in { "unborn", "done" }

\* the aggregator task has ended and its out_tx is dropped: the consumer of
\* the sink receives end-of-stream behind the events still in it
StreamEnded == AggregatorGone

\* C38: once all children of the aggregator are dead, the aggregated stream
\* ends unless an add_client call arrives.
C38_StreamEnds ==
    (AllChildrenDead /\ AddsQueued = 0) ~> (StreamEnded \/ AddsQueued > 0)

(***************************************************************************)
(* Claims about the assertion of Joined::on_data, checked under            *)
(* SpecJoined.                                                             *)
(***************************************************************************)
\* C39: applying a packet never panics the task: no step takes a joined
\* connection whose task is alive to one whose task has panicked in the
\* assert_eq! of the NickReply arm.
C39_NickReplyAssertHolds ==
    [][ joined_alive => joined_alive' ]_vars

(***************************************************************************)
(* Claims about the life of the aggregator task, checked under SpecMulti.  *)
(***************************************************************************)
\* C40: while a MultiClient exists the aggregator task has neither ended nor
\* panicked, no call of get_clients or add_client has panicked, and the id the
\* next AddClient command takes is no key of the client table.
C40_TaskRunsWhileHandled ==
    multi_handles > 0 =>
        /\ ~AggregatorGone
        /\ \A c \in Callers : caller_pc[c] # "panicked"
        /\ next_id \notin DOMAIN clients

\* two clients were added through a MultiClient that still exists; the first
\* has stopped and is purged, the second is in the table
C40_Witness ==
    /\ multi_handles > 0
    /\ next_id = 2
    /\ DOMAIN clients = { 1 }
    /\ DOMAIN added = { 0, 1 }
    /\ \A c \in Callers : caller_pc[c] = "idle"

====
